---- MODULE Spec2Model ----
(***************************************************************************)
(* Payment/status reconciliation and caching layer of the dashboard:       *)
(* the Google-Sheets adapter (lib/googleSheetsHelper.ts, second copy), the *)
(* in-process cache (lib/cache-utils.ts) and the API route handlers.       *)
(* Every request is a process whose steps are the handler's awaits: what   *)
(* runs between two awaits is one atomic step, a store call lands at the   *)
(* sheet in one step and its continuation runs in a later one.             *)
(***************************************************************************)
EXTENDS Integers, Sequences, FiniteSets, TLC

VARIABLES
    clock,              \* wall clock in milliseconds (new Date())
    paymentSheet,       \* rows of the "Payment" sheet, row 1 first
    goldSheet,          \* rows of the "Gold Payment" sheet
    sellerSheet,        \* rows of the "Seller Info" sheet
    paymentsCache,      \* cache-utils: paymentsCache (NoEntry = null)
    goldPaymentsCache,  \* cache-utils: goldPaymentsCache
    proc,               \* the requests in flight, one record per slot
    started,            \* number of requests accepted so far
    hist                \* history: versions of the Payment sheet seen/acknowledged

vars == <<clock, paymentSheet, goldSheet, sellerSheet, paymentsCache,
          goldPaymentsCache, proc, started, hist>>

----------------------------------------------------------------------------
(* Bounds of the model *)

MaxRequests == 2
MaxRaceRequests == 3
MaxTicks == 2
MaxBatch == 2
MaxRows == 4

(* Program constants *)

CACHE_REFRESH_INTERVAL == 15 * 60 * 1000
CACHE_INVALIDATION_TIMEOUT == 30 * 60 * 1000

(* The clock advances by one of these amounts between two steps. *)
ClockSteps == {5 * 60 * 1000, 15 * 60 * 1000}
MaxTime == MaxTicks * CACHE_REFRESH_INTERVAL

Procs == {"r1", "r2"}

----------------------------------------------------------------------------
(* Values *)

NoEntry == [data |-> <<>>, lastFetched |-> -1, lastAccessed |-> -1]

NoSession == [role |-> "NONE", discordId |-> "", username |-> ""]
Alice == [role |-> "SUPPORT", discordId |-> "d8", username |-> "alice"]
Bob == [role |-> "SUPPORT", discordId |-> "d9", username |-> "bob"]
Carol == [role |-> "MEMBER", discordId |-> "d1", username |-> "carol"]
Dave == [role |-> "MEMBER", discordId |-> "d2", username |-> "dave"]

CanonicalStatuses == {"Pending", "Paid", "Cancelled"}

(* JavaScript truthiness of a string cell or body field: "" and the absent *)
(* field (Undef) are falsy.                                                *)
Undef == "<undefined>"
Truthy(v) == v # "" /\ v # Undef

(* a || b *)
OrElse(a, b) == IF Truthy(a) THEN a ELSE b

(* the lower-case letter of every upper-case ASCII letter *)
LowerCaseOf ==
    LET upper == "ABCDEFGHIJKLMNOPQRSTUVWXYZ"
        lower == "abcdefghijklmnopqrstuvwxyz"
    IN [c \in {SubSeq(upper, k, k) : k \in 1..26} |->
           LET k == CHOOSE k \in 1..26 : SubSeq(upper, k, k) = c
           IN SubSeq(lower, k, k)]

(* String.prototype.toLowerCase, on strings of ASCII characters *)
ToLowerCase(s) ==
    LET low(c) == IF c \in DOMAIN LowerCaseOf THEN LowerCaseOf[c] ELSE c
        f[i \in 0..Len(s)] == IF i = 0 THEN "" ELSE f[i - 1] \o low(SubSeq(s, i, i))
    IN f[Len(s)]

(* String.prototype.includes *)
Includes(s, sub) ==
    \E i \in 1..(Len(s) - Len(sub) + 1) : SubSeq(s, i, i + Len(sub) - 1) = sub

(* parseInt(s.match(/\d+/)?.[0] || default, 10): the first run of digits   *)
(* of s as a number, default when s has no digit                           *)
FirstInteger(s, default) ==
    LET IsDigit(c) == \E n \in 0..9 : ToString(n) = c
        Digit(c) == CHOOSE n \in 0..9 : ToString(n) = c
        at(i) == SubSeq(s, i, i)
    IN IF \A i \in 1..Len(s) : ~IsDigit(at(i)) THEN default
       ELSE LET first == CHOOSE i \in 1..Len(s) :
                            IsDigit(at(i)) /\ \A j \in 1..(i - 1) : ~IsDigit(at(j))
                last == CHOOSE i \in first..Len(s) :
                            /\ \A j \in first..i : IsDigit(at(j))
                            /\ (i = Len(s) \/ ~IsDigit(at(i + 1)))
                val[i \in (first - 1)..last] ==
                    IF i = first - 1 THEN 0 ELSE 10 * val[i - 1] + Digit(at(i))
            IN val[last]

Max(a, b) == IF a >= b THEN a ELSE b

----------------------------------------------------------------------------
(* The Payment sheet.  A row keeps the cells the handlers distinguish:     *)
(* A (id), B (amount), F (timestamp), G (discordId), I (iban), N (note),   *)
(* O (status), P (whoPaidCancelled).  A missing trailing cell is the       *)
(* empty string.                                                           *)

PaymentRow(id, amount, timestamp, discordId, iban, note, status, who) ==
    [id |-> id, amount |-> amount, timestamp |-> timestamp, discordId |-> discordId,
     iban |-> iban, note |-> note, status |-> status, whoPaidCancelled |-> who]

PaymentHeader ==
    PaymentRow("ID", "Amount", "Time Stamp", "Discord ID", "IBAN", "Note", "Status",
               "Who Paid/Cancelled")

(* Date.prototype.toISOString of a time of the model's first day *)
TwoDigits(n) == IF n < 10 THEN "0" \o ToString(n) ELSE ToString(n)
ThreeDigits(n) == IF n < 10 THEN "00" \o ToString(n)
                  ELSE IF n < 100 THEN "0" \o ToString(n) ELSE ToString(n)
ToISOString(ms) ==
    "1970-01-01T" \o TwoDigits((ms \div 3600000) % 24) \o ":"
        \o TwoDigits((ms \div 60000) % 60) \o ":"
        \o TwoDigits((ms \div 1000) % 60) \o "." \o ThreeDigits(ms % 1000) \o "Z"

(* getPayments: row -> payment object *)
RowToPayment(row) ==
    LET status == OrElse(row.status, "Pending")
    IN [id |-> row.id, amount |-> row.amount, submitDate |-> row.timestamp,
        timestamp |-> row.timestamp, discordId |-> row.discordId, iban |-> row.iban,
        note |-> row.note, status |-> status,
        whoPaidCancelled |-> OrElse(row.whoPaidCancelled, ""),
        paid |-> (status = "Paid")]

(* getPayments on the rows the sheet returned *)
getPayments(rows) ==
    IF Len(rows) = 0 THEN <<>>
    ELSE LET hasHeaderRow == Len(rows) > 1
                             /\ (rows[1].id = "ID" \/ ToLowerCase(rows[1].id) = "id")
             dataRows == IF hasHeaderRow THEN Tail(rows) ELSE rows
         IN [i \in 1..Len(dataRows) |-> RowToPayment(dataRows[i])]

(* updatePayment / deletePayment: 1-indexed sheet row of the first row     *)
(* whose id cell equals paymentId, -1 when there is none.                  *)
FindRowIndex(rows, paymentId) ==
    IF \E i \in 1..Len(rows) : rows[i].id = paymentId
    THEN CHOOSE i \in 1..Len(rows) :
            /\ rows[i].id = paymentId
            /\ \A j \in 1..(i - 1) : rows[j].id # paymentId
    ELSE -1

----------------------------------------------------------------------------
(* The Gold Payment sheet.  Cells kept: A (date), B (discordId),           *)
(* F (category, the cell updateGoldPaymentStatus writes), H (paymentId),   *)
(* I (status, the cell getGoldPayments reads).                             *)

GoldRow(date, discordId, category, paymentId, status) ==
    [date |-> date, discordId |-> discordId, category |-> category,
     paymentId |-> paymentId, status |-> status]

GoldHeader == GoldRow("Date", "Discord ID", "Category", "Payment ID", "Status")

(* A gold payment id: the stored Payment ID cell, or the synthetic         *)
(* gold-{discordId}-{index}-{millis}.                                      *)
StoredGoldId(text) == [synthetic |-> FALSE, discordId |-> "", index |-> -1,
                       millis |-> -1, text |-> text]
SyntheticGoldId(discordId, index, millis) ==
    [synthetic |-> TRUE, discordId |-> discordId, index |-> index,
     millis |-> millis, text |-> ""]
NoGoldId == StoredGoldId("")

(* String.prototype.trim, for blanks *)
RECURSIVE Trim(_)
Trim(s) ==
    IF Len(s) > 0 /\ SubSeq(s, 1, 1) = " " THEN Trim(SubSeq(s, 2, Len(s)))
    ELSE IF Len(s) > 0 /\ SubSeq(s, Len(s), Len(s)) = " "
    THEN Trim(SubSeq(s, 1, Len(s) - 1))
    ELSE s

(* getGoldPayments, lines 1306-1318: status cell -> status; a text that no *)
(* test matches stays as it is                                             *)
NormalizeGoldStatus(cell) ==
    LET status == OrElse(cell, "Pending")
        low == ToLowerCase(Trim(status))
    IN IF low \in {"yes", "true", "completed", "paid"} THEN "Paid"
       ELSE IF low \in {"cancelled", "cancel"} THEN "Cancelled"
       ELSE IF Trim(status) = "" \/ low = "pending" THEN "Pending"
       ELSE status

(* getGoldPayments: row -> gold payment object; index is 0-based *)
RowToGoldPayment(row, index, millis) ==
    [id |-> IF Truthy(row.paymentId) THEN StoredGoldId(row.paymentId)
            ELSE SyntheticGoldId(row.discordId, index, millis),
     discordId |-> OrElse(row.discordId, ""),
     category |-> OrElse(row.category, ""),
     paymentId |-> OrElse(row.paymentId, ""),
     status |-> NormalizeGoldStatus(row.status)]

(* getGoldPayments on the rows the sheet returned, mapped at time millis *)
getGoldPayments(rows, millis) ==
    IF Len(rows) = 0 THEN <<>>
    ELSE LET hasHeaderRow == Len(rows) > 1
                             /\ (rows[1].date = "Date"
                                 \/ ToLowerCase(rows[1].date) = "date")
             dataRows == IF hasHeaderRow THEN Tail(rows) ELSE rows
         IN [i \in 1..Len(dataRows) |-> RowToGoldPayment(dataRows[i], i - 1, millis)]

----------------------------------------------------------------------------
(* cache-utils *)

(* a variant that still serves an entry exactly one refresh interval old *)
IsFresh_Inclusive(entry, now) ==
    LET cacheAge == now - entry.lastFetched
        inactiveTime == now - entry.lastAccessed
    IN cacheAge <= CACHE_REFRESH_INTERVAL /\ inactiveTime < CACHE_INVALIDATION_TIMEOUT

(* the test of getCachedPayments / getCachedGoldPayments, made after        *)
(* lastAccessed has been set to now                                        *)
IsFresh(entry, now) ==
    LET cacheAge == now - entry.lastFetched
        inactiveTime == now - entry.lastAccessed
    IN cacheAge < CACHE_REFRESH_INTERVAL /\ inactiveTime < CACHE_INVALIDATION_TIMEOUT

(* the synchronous head of getCachedPayments: the entry after the          *)
(* lastAccessed bump and whether its data is returned                      *)
CacheLookup(entry, now) ==
    IF entry = NoEntry
    THEN [entry |-> entry, hit |-> FALSE]
    ELSE LET bumped == [entry EXCEPT !.lastAccessed = now]
         IN [entry |-> bumped, hit |-> IsFresh(bumped, now)]

(* the entry installed after a successful fetch started at time now *)
FreshEntry(data, now) == [data |-> data, lastFetched |-> now, lastAccessed |-> now]

(* a variant without the fallback: every fetch error is rethrown *)
OnFetchError_Rethrow(entry) == [thrown |-> TRUE, data |-> <<>>]

(* the catch block of getCachedPayments: serve the entry, or rethrow *)
OnFetchError(entry) ==
    IF entry # NoEntry THEN [thrown |-> FALSE, data |-> entry.data]
    ELSE [thrown |-> TRUE, data |-> <<>>]

----------------------------------------------------------------------------
(* Requests *)

(* a request body; an absent field is Undef.  amount stands for the       *)
(* required fields a payment form always sends together (amount, price,    *)
(* totalRial, paymentDuration, game).                                      *)
NoBody ==
    [id |-> Undef, status |-> Undef, note |-> Undef, discordId |-> Undef,
     whoPaidCancelled |-> Undef, updatedBy |-> Undef, paymentIds |-> <<>>,
     amount |-> Undef, cardNumber |-> Undef, iban |-> Undef, nameOnCard |-> Undef,
     timestamp |-> Undef, date |-> Undef, paid |-> Undef]

Request(kind, session, id, body) ==
    [kind |-> kind, session |-> session, id |-> id, goldId |-> NoGoldId, body |-> body]

GoldRequest(session, goldId, body) ==
    [kind |-> "goldPut", session |-> session, id |-> "", goldId |-> goldId, body |-> body]

(* the partial handed to updatePayment *)
Partial(status, note, discordId, whoPaidCancelled, amount, iban, timestamp) ==
    [status |-> status, note |-> note, discordId |-> discordId,
     whoPaidCancelled |-> whoPaidCancelled, amount |-> amount, iban |-> iban,
     timestamp |-> timestamp]

NoPartial == Partial(Undef, Undef, Undef, Undef, Undef, Undef, Undef)

NoRow == PaymentRow("", "", "", "", "", "", "", "")
NoFetch == [ok |-> FALSE, data |-> <<>>]

Idle ==
    [pc |-> "idle", kind |-> "", session |-> NoSession, id |-> "", goldId |-> NoGoldId,
     body |-> NoBody,
     now |-> -1, fetched |-> NoFetch, payments |-> <<>>, partial |-> NoPartial,
     rowIndex |-> -1, current |-> NoRow, items |-> <<>>, todo |-> {},
     posts |-> 0, notified |-> "none", resp |-> 0, out |-> <<>>]

GoldKinds == {"goldList", "goldPut"}
WriteKinds == {"create", "put", "batch", "delete", "goldPut"}

(* the collection a handler reads through the cache *)
Collection(kind) == IF kind \in GoldKinds THEN "gold" ELSE "payments"

CacheOf(c) == IF c = "gold" THEN goldPaymentsCache ELSE paymentsCache

(* a variant that checks the session but not the role *)
AuthStatus_SessionOnly(kind, session) ==
    IF kind \in {"sellerInfo", "sellerInfoPost"} THEN 0
    ELSE IF session = NoSession THEN 401 ELSE 0

(* if (!session) -> 401; if (session.user.role !== 'SUPPORT') -> 403; the  *)
(* handlers of /api/seller-info never call getServerSession                *)
AuthStatus(kind, session) ==
    IF kind \in {"sellerInfo", "sellerInfoPost"} THEN 0
    ELSE IF session = NoSession THEN 401
    ELSE IF kind \in WriteKinds /\ session.role # "SUPPORT" THEN 403
    ELSE 0

(* update-status: validation of the body *)
BatchValidation(body) ==
    IF Len(body.paymentIds) = 0 THEN 400
    ELSE IF ~Truthy(body.status) THEN 400
    ELSE 0

(* the first step a handler takes after authentication and validation *)
FirstPc(kind) ==
    CASE kind = "delete" -> "delRead"
      [] kind = "create" -> "create"
      [] kind = "sellerInfo" -> "sellerGet"
      [] kind = "sellerInfoPost" -> "sellerUpsertRead"
      [] OTHER -> "read"

(* a variant that returns the cache read to every viewer *)
FilterForViewer_Unfiltered(records, session) == records

(* payments.filter(payment => payment.discordId === session.user.discordId) *)
FilterForViewer(records, session) ==
    IF session.role # "SUPPORT"
    THEN SelectSeq(records, LAMBDA r : r.discordId = session.discordId)
    ELSE records

(* the handler returns: its locals are gone; the response, the number of   *)
(* webhook POSTs it made and the logged outcome of the last one stay       *)
Responded(q, code, out) ==
    [Idle EXCEPT !.pc = "done", !.kind = q.kind, !.session = q.session, !.id = q.id,
                 !.goldId = q.goldId, !.body = q.body, !.posts = q.posts,
                 !.notified = q.notified, !.resp = code, !.out = out]

----------------------------------------------------------------------------
(* History of the Payment sheet: storeVer counts its changes, ackedVer is  *)
(* the newest change whose handler has called invalidatePaymentsCache,     *)
(* cacheVer the change the cached listing was read at; invalidated holds   *)
(* from a call of invalidatePaymentsCache to the start of the next read.   *)

HistInit ==
    [storeVer |-> 0, ackedVer |-> 0, cacheVer |-> -1, invalidated |-> FALSE,
     fetchVer |-> [p \in Procs |-> -1], minVer |-> [p \in Procs |-> -1],
     gotVer |-> [p \in Procs |-> -1], writeVer |-> [p \in Procs |-> -1]]

HistStart(p) ==
    [hist EXCEPT !.fetchVer[p] = -1, !.minVer[p] = -1, !.gotVer[p] = -1,
                 !.writeVer[p] = -1]

HistWrite(p, changed) ==
    IF changed
    THEN [hist EXCEPT !.storeVer = @ + 1, !.writeVer[p] = hist.storeVer + 1]
    ELSE [hist EXCEPT !.writeVer[p] = Max(@, hist.storeVer)]

HistInvalidate(p) ==
    [hist EXCEPT !.ackedVer = Max(@, hist.writeVer[p]), !.cacheVer = -1,
                 !.invalidated = TRUE]

HistDone(h, p) ==
    [h EXCEPT !.fetchVer[p] = -1, !.minVer[p] = -1, !.gotVer[p] = -1,
              !.writeVer[p] = -1]

Finish(p, code, out, h) ==
    /\ proc' = [proc EXCEPT ![p] = Responded(proc[p], code, out)]
    /\ hist' = HistDone(h, p)

Goto(p, rec, h) ==
    /\ proc' = [proc EXCEPT ![p] = rec]
    /\ hist' = h

----------------------------------------------------------------------------
(* A request arrives: getServerSession, the role check and the body        *)
(* validation run before the handler's first store or cache call.          *)

Accept(p, req) ==
    /\ proc[p].pc \in {"idle", "done"}
    /\ proc[p].todo = {}
    /\ started' = started + 1
    /\ LET auth == AuthStatus(req.kind, req.session)
           valid == IF req.kind = "batch" THEN BatchValidation(req.body)
                    ELSE IF req.kind \in {"sellerInfo", "sellerInfoPost"}
                            /\ ~Truthy(req.body.discordId) THEN 400
                    ELSE 0
           base == [Idle EXCEPT !.kind = req.kind, !.session = req.session,
                                !.id = req.id, !.goldId = req.goldId,
                                !.body = req.body]
       IN proc' = [proc EXCEPT ![p] =
                     IF auth # 0 THEN Responded(base, auth, <<>>)
                     ELSE IF valid # 0 THEN Responded(base, valid, <<>>)
                     ELSE [base EXCEPT !.pc = FirstPc(req.kind)]]
    /\ hist' = HistStart(p)
    /\ UNCHANGED <<clock, paymentSheet, goldSheet, sellerSheet, paymentsCache, goldPaymentsCache>>

StartRequest(p, req) == started < MaxRequests /\ Accept(p, req)

(* time passes *)
Tick ==
    /\ \E d \in ClockSteps :
        /\ clock + d <= MaxTime
        /\ clock' = clock + d
    /\ UNCHANGED <<paymentSheet, goldSheet, sellerSheet, paymentsCache, goldPaymentsCache,
                   proc, started, hist>>

----------------------------------------------------------------------------
(* getCachedPayments / getCachedGoldPayments *)

(* lines 23-40: now, the lastAccessed bump, the freshness test *)
CacheBegin(p) ==
    /\ proc[p].pc = "read"
    /\ LET c == Collection(proc[p].kind)
           look == CacheLookup(CacheOf(c), clock)
       IN /\ IF c = "gold"
             THEN goldPaymentsCache' = look.entry /\ UNCHANGED paymentsCache
             ELSE paymentsCache' = look.entry /\ UNCHANGED goldPaymentsCache
          /\ proc' = [proc EXCEPT ![p] =
                IF look.hit
                THEN [@ EXCEPT !.pc = "afterRead", !.now = clock,
                               !.payments = look.entry.data]
                ELSE [@ EXCEPT !.pc = "fetch", !.now = clock]]
          /\ hist' = IF c = "gold" THEN hist
                     ELSE [hist EXCEPT !.minVer[p] = hist.ackedVer,
                                       !.gotVer[p] = IF look.hit THEN hist.cacheVer ELSE -1,
                                       !.invalidated = FALSE]
    /\ UNCHANGED <<clock, paymentSheet, goldSheet, sellerSheet, started>>

(* getPayments() / getGoldPayments(): values.get is applied at the sheet   *)
(* and reads its rows                                                      *)
AdapterAnswers(p) ==
    /\ proc[p].pc = "fetch"
    /\ LET c == Collection(proc[p].kind)
           data == IF c = "gold" THEN goldSheet ELSE paymentSheet
       IN /\ proc' = [proc EXCEPT ![p].pc = "fetched",
                                  ![p].fetched = [ok |-> TRUE, data |-> data]]
          /\ hist' = IF c = "gold" THEN hist
                     ELSE [hist EXCEPT !.fetchVer[p] = hist.storeVer]
    /\ UNCHANGED <<clock, paymentSheet, goldSheet, sellerSheet, paymentsCache, goldPaymentsCache,
                   started>>

(* await getPayments() / getGoldPayments(): the sheet call throws *)
AdapterFails(p) ==
    /\ proc[p].pc = "fetch"
    /\ proc' = [proc EXCEPT ![p].pc = "fetched", ![p].fetched = NoFetch]
    /\ UNCHANGED <<clock, paymentSheet, goldSheet, sellerSheet, paymentsCache, goldPaymentsCache,
                   started, hist>>

(* the answer of values.get is delivered: the adapter maps the rows (the   *)
(* synthetic gold ids take new Date().getTime() here); lines 46-61 then    *)
(* install the entry, or the catch block runs                              *)
CacheFinish(p) ==
    /\ proc[p].pc = "fetched"
    /\ LET c == Collection(proc[p].kind)
           f == proc[p].fetched
           data == IF c = "gold" THEN getGoldPayments(f.data, clock)
                   ELSE getPayments(f.data)
           fallback == OnFetchError(CacheOf(c))
       IN IF f.ok
          THEN /\ IF c = "gold"
                  THEN /\ goldPaymentsCache' = FreshEntry(data, proc[p].now)
                       /\ UNCHANGED paymentsCache
                  ELSE /\ paymentsCache' = FreshEntry(data, proc[p].now)
                       /\ UNCHANGED goldPaymentsCache
               /\ proc' = [proc EXCEPT ![p].pc = "afterRead", ![p].payments = data]
               /\ hist' = IF c = "gold" THEN hist
                          ELSE [hist EXCEPT !.cacheVer = hist.fetchVer[p],
                                            !.gotVer[p] = hist.fetchVer[p]]
          ELSE /\ UNCHANGED <<paymentsCache, goldPaymentsCache>>
               /\ IF fallback.thrown
                  THEN Finish(p, 500, <<>>, hist)
                  ELSE Goto(p, [proc[p] EXCEPT !.pc = "afterRead",
                                               !.payments = fallback.data],
                            IF c = "gold" THEN hist
                            ELSE [hist EXCEPT !.gotVer[p] = hist.cacheVer])
    /\ UNCHANGED <<clock, paymentSheet, goldSheet, sellerSheet, started>>

(* GET /api/payments/[id] after the cache read: payments.find by id *)
GetRespond(p) ==
    /\ proc[p].pc = "afterRead"
    /\ proc[p].kind = "get"
    /\ LET hits == {i \in 1..Len(proc[p].payments) : proc[p].payments[i].id = proc[p].id}
       IN IF hits = {} THEN Finish(p, 404, <<>>, hist)
          ELSE Finish(p, 200, <<proc[p].payments[CHOOSE i \in hits : \A j \in hits : i <= j]>>,
                      hist)
    /\ UNCHANGED <<clock, paymentSheet, goldSheet, sellerSheet, paymentsCache, goldPaymentsCache,
                   started>>

(* GET /api/payments and GET /api/gold-payments after the cache read *)
ListRespond(p) ==
    /\ proc[p].pc = "afterRead"
    /\ proc[p].kind \in {"list", "goldList"}
    /\ Finish(p, 200, FilterForViewer(proc[p].payments, proc[p].session), hist)
    /\ UNCHANGED <<clock, paymentSheet, goldSheet, sellerSheet, paymentsCache, goldPaymentsCache,
                   started>>

----------------------------------------------------------------------------
(* updatePayment and deletePayment *)

(* Object.keys(payment): the fields present in the partial *)
Keys(partial) == {k \in DOMAIN partial : partial[k] # Undef}

(* a variant without the status-only path: every update rewrites the row *)
IsStatusOnly_Never(partial) == FALSE

(* line 1085: the status-only test of updatePayment *)
IsStatusOnly(partial) ==
    /\ Truthy(partial.status)
    /\ Cardinality(Keys(partial)) <= 3
    /\ ("status" \in Keys(partial) \/ "whoPaidCancelled" \in Keys(partial))

(* a variant with terminal states: a Paid or Cancelled row keeps its status *)
WriteStatusCell_Terminal(rows, rowIndex, status) ==
    IF rows[rowIndex].status \in {"Paid", "Cancelled"}
    THEN rows
    ELSE [rows EXCEPT ![rowIndex].status = status]

(* lines 1086-1095: values.update of Payment!O{rowIndex} *)
WriteStatusCell(rows, rowIndex, status) ==
    [rows EXCEPT ![rowIndex].status = status]

(* lines 1119-1167: the merged row written to Payment!A{rowIndex}:Q{rowIndex} *)
MergedRow(paymentId, partial, current) ==
    PaymentRow(paymentId,
               IF partial.amount # Undef THEN partial.amount ELSE current.amount,
               current.timestamp,
               OrElse(partial.discordId, current.discordId),
               OrElse(partial.iban, current.iban),
               IF partial.note # Undef THEN partial.note ELSE current.note,
               OrElse(partial.status, OrElse(current.status, "Pending")),
               OrElse(partial.whoPaidCancelled, OrElse(current.whoPaidCancelled, "")))

(* the sheet after updatePayment's write *)
UpdateWrite(rows, rowIndex, paymentId, partial, current) ==
    IF IsStatusOnly(partial)
    THEN WriteStatusCell(rows, rowIndex, partial.status)
    ELSE [rows EXCEPT ![rowIndex] = MergedRow(paymentId, partial, current)]

(* PUT /api/payments/[id], lines 139-167: what is handed to updatePayment *)
PutPartial(body) ==
    IF Truthy(body.status)
    THEN Partial(body.status, Undef, Undef, Undef, Undef, Undef, Undef)
    ELSE Partial(body.status, body.note, body.discordId, body.whoPaidCancelled,
                 body.amount, body.iban, body.timestamp)

(* update-status, lines 56-59: what is handed to updatePayment *)
BatchPartial(body, session) ==
    Partial(body.status, Undef, Undef,
            IF Truthy(body.updatedBy) THEN body.updatedBy ELSE session.username,
            Undef, Undef, Undef)

(* whether a handler whose write succeeded calls sendToDiscordWebhook *)
Notifies(kind, body) ==
    CASE kind = "put" -> Truthy(body.status) \/ body.paid # Undef
      [] kind = "create" -> TRUE
      [] kind = "goldPut" -> Truthy(body.status)
      [] OTHER -> FALSE

(* the status of the response of a write that succeeded *)
SuccessCode(kind) == IF kind = "create" THEN 201 ELSE 200

(* a variant that lets a failed notification fail the request *)
AfterNotify_Surfaces(code, ok) == IF ok THEN code ELSE 500

(* the try / catch around sendToDiscordWebhook: the response does not     *)
(* depend on the webhook's outcome                                         *)
AfterNotify(code, ok) == code

(* PUT /api/payments/[id] after the cache read: call updatePayment *)
PutAfterRead(p) ==
    /\ proc[p].pc = "afterRead"
    /\ proc[p].kind = "put"
    /\ proc' = [proc EXCEPT ![p].pc = "updRead",
                            ![p].partial = PutPartial(proc[p].body)]
    /\ UNCHANGED <<clock, paymentSheet, goldSheet, sellerSheet, paymentsCache, goldPaymentsCache,
                   started, hist>>

(* updatePayment / deletePayment: values.get answers; find the row *)
UpdRead(p) ==
    /\ proc[p].pc \in {"updRead", "delRead"}
    /\ LET rowIndex == FindRowIndex(paymentSheet, proc[p].id)
       IN IF Len(paymentSheet) = 0 \/ rowIndex = -1
          THEN Finish(p, 500, <<>>, hist)
          ELSE Goto(p, [proc[p] EXCEPT
                          !.pc = IF proc[p].pc = "delRead" THEN "delWrite" ELSE "updWrite",
                          !.rowIndex = rowIndex,
                          !.current = paymentSheet[rowIndex]], hist)
    /\ UNCHANGED <<clock, paymentSheet, goldSheet, sellerSheet, paymentsCache, goldPaymentsCache,
                   started>>

(* any store call of a single-record handler throws: the outer catch, 500 *)
StoreCallFails(p) ==
    /\ proc[p].pc \in {"updRead", "delRead", "updWrite", "delWrite"}
    /\ Finish(p, 500, <<>>, hist)
    /\ UNCHANGED <<clock, paymentSheet, goldSheet, sellerSheet, paymentsCache, goldPaymentsCache,
                   started>>

(* updatePayment: values.update is applied *)
UpdWrite(p) ==
    /\ proc[p].pc = "updWrite"
    /\ paymentSheet' = UpdateWrite(paymentSheet, proc[p].rowIndex, proc[p].id,
                                   proc[p].partial, proc[p].current)
    /\ proc' = [proc EXCEPT ![p].pc = "afterWrite"]
    /\ hist' = HistWrite(p, paymentSheet' # paymentSheet)
    /\ UNCHANGED <<clock, goldSheet, sellerSheet, paymentsCache, goldPaymentsCache, started>>

(* a variant that deletes the row from the sheet *)
CancelRow_Remove(rows, rowIndex) ==
    SubSeq(rows, 1, rowIndex - 1) \o SubSeq(rows, rowIndex + 1, Len(rows))

(* deletePayment, lines 1243-1251: the row's column O is set to Cancelled *)
CancelRow(rows, rowIndex) == WriteStatusCell(rows, rowIndex, "Cancelled")

(* deletePayment: values.update of Payment!O{rowIndex} to Cancelled *)
DelWrite(p) ==
    /\ proc[p].pc = "delWrite"
    /\ paymentSheet' = CancelRow(paymentSheet, proc[p].rowIndex)
    /\ proc' = [proc EXCEPT ![p].pc = "afterWrite"]
    /\ hist' = HistWrite(p, paymentSheet' # paymentSheet)
    /\ UNCHANGED <<clock, goldSheet, sellerSheet, paymentsCache, goldPaymentsCache, started>>

(* PUT / DELETE after the write: invalidatePaymentsCache, the webhook     *)
(* (PUT only; its outcome is caught and ignored), the response             *)
AfterWrite(p) ==
    /\ proc[p].pc = "afterWrite"
    /\ proc[p].kind \in {"put", "delete"}
    /\ paymentsCache' = NoEntry
    /\ IF Notifies(proc[p].kind, proc[p].body)
       THEN Goto(p, [proc[p] EXCEPT !.pc = "notify", !.posts = @ + 1], HistInvalidate(p))
       ELSE Finish(p, SuccessCode(proc[p].kind), <<>>, HistInvalidate(p))
    /\ UNCHANGED <<clock, paymentSheet, goldSheet, sellerSheet, goldPaymentsCache, started>>

(* sendToDiscordWebhook settles: it resolves true, or its catch resolves   *)
(* false; the handler logs either and returns its response                 *)
WebhookSettles(p, ok) ==
    /\ proc[p].pc = "notify"
    /\ proc' = [proc EXCEPT ![p] =
            Responded([proc[p] EXCEPT !.notified = IF ok THEN "sent" ELSE "failed"],
                      AfterNotify(SuccessCode(proc[p].kind), ok), <<>>)]
    /\ hist' = HistDone(hist, p)
    /\ UNCHANGED <<clock, paymentSheet, goldSheet, sellerSheet, paymentsCache,
                   goldPaymentsCache, started>>

----------------------------------------------------------------------------
(* POST /api/payments/update-status *)

Item(paymentId, state, rowIndex, current) ==
    [paymentId |-> paymentId, state |-> state, rowIndex |-> rowIndex,
     current |-> current]

(* allPayments.find(p => p.id === paymentId) *)
FoundIn(payments, paymentId) == \E i \in 1..Len(payments) : payments[i].id = paymentId

(* lines 44-59: the map callbacks run up to their first await *)
BatchAfterRead(p) ==
    /\ proc[p].pc = "afterRead"
    /\ proc[p].kind = "batch"
    /\ LET ids == proc[p].body.paymentIds
       IN proc' = [proc EXCEPT
            ![p].pc = "batch",
            ![p].partial = BatchPartial(proc[p].body, proc[p].session),
            ![p].items = [i \in 1..Len(ids) |->
                            Item(ids[i],
                                 IF FoundIn(proc[p].payments, ids[i]) THEN "read" ELSE "fail",
                                 -1, NoRow)]]
    /\ UNCHANGED <<clock, paymentSheet, goldSheet, sellerSheet, paymentsCache, goldPaymentsCache,
                   started, hist>>

(* updatePayment of one ID: values.get answers; find the row *)
BatchItemRead(p, i) ==
    /\ proc[p].pc = "batch"
    /\ i \in 1..Len(proc[p].items)
    /\ proc[p].items[i].state = "read"
    /\ LET rowIndex == FindRowIndex(paymentSheet, proc[p].items[i].paymentId)
       IN proc' = [proc EXCEPT ![p].items[i] =
            IF Len(paymentSheet) = 0 \/ rowIndex = -1
            THEN [@ EXCEPT !.state = "fail"]
            ELSE [@ EXCEPT !.state = "write", !.rowIndex = rowIndex,
                           !.current = paymentSheet[rowIndex]]]
    /\ UNCHANGED <<clock, paymentSheet, goldSheet, sellerSheet, paymentsCache, goldPaymentsCache,
                   started, hist>>

(* updatePayment of one ID throws (read or write): caught per ID *)
BatchItemFails(p, i) ==
    /\ proc[p].pc = "batch"
    /\ i \in 1..Len(proc[p].items)
    /\ proc[p].items[i].state \in {"read", "write"}
    /\ proc' = [proc EXCEPT ![p].items[i].state = "fail"]
    /\ UNCHANGED <<clock, paymentSheet, goldSheet, sellerSheet, paymentsCache, goldPaymentsCache,
                   started, hist>>

(* updatePayment of one ID: values.update is applied at the sheet *)
BatchItemWrite(p, i) ==
    /\ proc[p].pc = "batch"
    /\ i \in 1..Len(proc[p].items)
    /\ proc[p].items[i].state = "write"
    /\ paymentSheet' = UpdateWrite(paymentSheet, proc[p].items[i].rowIndex,
                                   proc[p].items[i].paymentId, proc[p].partial,
                                   proc[p].items[i].current)
    /\ proc' = [proc EXCEPT ![p].items[i].state = "written"]
    /\ hist' = HistWrite(p, paymentSheet' # paymentSheet)
    /\ UNCHANGED <<clock, goldSheet, sellerSheet, paymentsCache, goldPaymentsCache, started>>

(* updatePayment of one ID has resolved: the callback goes on to call      *)
(* sendToDiscordWebhook                                                    *)
BatchItemAfterWrite(p, i) ==
    /\ proc[p].pc = "batch"
    /\ i \in 1..Len(proc[p].items)
    /\ proc[p].items[i].state = "written"
    /\ proc' = [proc EXCEPT ![p].items[i].state = "notify", ![p].posts = @ + 1]
    /\ UNCHANGED <<clock, paymentSheet, goldSheet, sellerSheet, paymentsCache,
                   goldPaymentsCache, started, hist>>

(* sendToDiscordWebhook of one ID settles, either way: the ID succeeded *)
BatchItemNotified(p, i, ok) ==
    /\ proc[p].pc = "batch"
    /\ i \in 1..Len(proc[p].items)
    /\ proc[p].items[i].state = "notify"
    /\ proc' = [proc EXCEPT ![p].items[i].state = "ok",
                            ![p].notified = IF ok THEN "sent" ELSE "failed"]
    /\ UNCHANGED <<clock, paymentSheet, goldSheet, sellerSheet, paymentsCache,
                   goldPaymentsCache, started, hist>>

(* the per-ID results of the response *)
BatchResults(items) ==
    [i \in 1..Len(items) |->
        [paymentId |-> items[i].paymentId, success |-> (items[i].state = "ok")]]

(* a variant that answers all-or-nothing *)
BatchCode_AllOrNothing(results) ==
    IF \E i \in 1..Len(results) : ~results[i].success THEN 500 ELSE 200

(* 207 when a result failed, 200 otherwise *)
BatchCode(results) ==
    IF \E i \in 1..Len(results) : ~results[i].success THEN 207 ELSE 200

(* lines 90-108: Promise.all has resolved; invalidate and respond *)
BatchJoin(p) ==
    /\ proc[p].pc = "batch"
    /\ \A i \in 1..Len(proc[p].items) : proc[p].items[i].state \in {"ok", "fail"}
    /\ paymentsCache' = NoEntry
    /\ LET results == BatchResults(proc[p].items)
       IN Finish(p, BatchCode(results), results, HistInvalidate(p))
    /\ UNCHANGED <<clock, paymentSheet, goldSheet, sellerSheet, goldPaymentsCache, started>>

----------------------------------------------------------------------------
(* PUT /api/gold-payments/[id] and updateGoldPaymentStatus *)

NoMatch == "<no match>"

(* paymentId.match(/gold-([^-]+)-/): the Discord ID part, or no match *)
ParseGoldId(id) ==
    IF id.synthetic /\ id.discordId # "" THEN id.discordId ELSE NoMatch

(* lines 1389-1395: the cell value written for a target status *)
GoldStatusValue(status) ==
    IF status = "Paid" THEN "yes"
    ELSE IF status = "Cancelled" THEN "cancelled"
    ELSE "pending"

(* a variant that stops at the first matching row *)
GoldMatchingRows_First(rows, discordId) ==
    LET startRow == IF rows[1].date = "Date" THEN 1 ELSE 0
        hits == {i \in (startRow + 1)..Len(rows) : rows[i].discordId = discordId}
    IN {i \in hits : \A j \in hits : i <= j}

(* lines 1374-1383: the sheet rows (1-indexed) whose Discord ID matches *)
GoldMatchingRows(rows, discordId) ==
    LET startRow == IF rows[1].date = "Date" THEN 1 ELSE 0
    IN {i \in (startRow + 1)..Len(rows) : rows[i].discordId = discordId}

(* after the cache read: paidBy is set, updateGoldPaymentStatus parses the id *)
GoldAfterRead(p) ==
    /\ proc[p].pc = "afterRead"
    /\ proc[p].kind = "goldPut"
    /\ IF ParseGoldId(proc[p].goldId) = NoMatch
       THEN Finish(p, 500, <<>>, hist)
       ELSE Goto(p, [proc[p] EXCEPT !.pc = "goldRead"], hist)
    /\ UNCHANGED <<clock, paymentSheet, goldSheet, sellerSheet, paymentsCache,
                   goldPaymentsCache, started>>

(* values.get answers; collect the matching rows *)
GoldRead(p) ==
    /\ proc[p].pc = "goldRead"
    /\ LET matching == IF Len(goldSheet) = 0 THEN {}
                       ELSE GoldMatchingRows(goldSheet, ParseGoldId(proc[p].goldId))
       IN IF matching = {}
          THEN Finish(p, 500, <<>>, hist)
          ELSE Goto(p, [proc[p] EXCEPT !.pc = "goldWrite", !.todo = matching], hist)
    /\ UNCHANGED <<clock, paymentSheet, goldSheet, sellerSheet, paymentsCache,
                   goldPaymentsCache, started>>

(* values.get throws *)
GoldReadFails(p) ==
    /\ proc[p].pc = "goldRead"
    /\ Finish(p, 500, <<>>, hist)
    /\ UNCHANGED <<clock, paymentSheet, goldSheet, sellerSheet, paymentsCache,
                   goldPaymentsCache, started>>

(* values.update of Gold Payment!F{rowIndex} is applied; an update still   *)
(* in flight when Promise.all rejected is applied after the response       *)
GoldRowWrite(p, r) ==
    /\ proc[p].pc \in {"goldWrite", "done"}
    /\ r \in proc[p].todo
    /\ goldSheet' = [goldSheet EXCEPT ![r].category = GoldStatusValue(proc[p].body.status)]
    /\ proc' = [proc EXCEPT ![p].todo = @ \ {r}]
    /\ UNCHANGED <<clock, paymentSheet, sellerSheet, paymentsCache, goldPaymentsCache,
                   started, hist>>

(* values.update of one row throws: Promise.all rejects at once, the       *)
(* outer catch answers 500 and the other updates stay in flight; a later   *)
(* rejection has no one waiting for it                                     *)
GoldRowFails(p, r) ==
    /\ proc[p].pc \in {"goldWrite", "done"}
    /\ r \in proc[p].todo
    /\ IF proc[p].pc = "goldWrite"
       THEN /\ proc' = [proc EXCEPT ![p] = [Responded(proc[p], 500, <<>>) EXCEPT
                                               !.todo = proc[p].todo \ {r}]]
            /\ hist' = HistDone(hist, p)
       ELSE Goto(p, [proc[p] EXCEPT !.todo = @ \ {r}], hist)
    /\ UNCHANGED <<clock, paymentSheet, goldSheet, sellerSheet, paymentsCache,
                   goldPaymentsCache, started>>

(* Promise.all has resolved: invalidateGoldPaymentsCache, the webhook,     *)
(* the response                                                            *)
GoldJoin(p) ==
    /\ proc[p].pc = "goldWrite"
    /\ proc[p].todo = {}
    /\ IF Notifies(proc[p].kind, proc[p].body)
       THEN Goto(p, [proc[p] EXCEPT !.pc = "notify", !.posts = @ + 1], hist)
       ELSE Finish(p, SuccessCode(proc[p].kind), <<>>, hist)
    /\ goldPaymentsCache' = NoEntry
    /\ UNCHANGED <<clock, paymentSheet, goldSheet, sellerSheet, paymentsCache,
                   started>>

----------------------------------------------------------------------------
(* POST /api/payments, getSellerInfoByDiscordId, addOrUpdateSellerInfo,    *)
(* addPayment                                                              *)

SellerRow(discordId, cardNumber, iban, nameOnCard) ==
    [discordId |-> discordId, cardNumber |-> cardNumber, iban |-> iban,
     nameOnCard |-> nameOnCard]

SellerHeader == SellerRow("Discord ID", "Card Number", "IBAN", "Name on Card")

GoodIban == "IR123456789012345678901234"
ShortIban == "IR1234"

(* /^IR\d{24}$/.test(iban) on the IBAN strings of the model *)
IbanMatches(iban) == iban = GoodIban

(* 1-indexed sheet row of the seller, -1 when there is none; the header is skipped *)
FindSellerRow(rows, discordId) ==
    LET startRow == IF Len(rows) > 0 /\ rows[1].discordId = "Discord ID" THEN 1 ELSE 0
        hits == {i \in (startRow + 1)..Len(rows) : rows[i].discordId = discordId}
    IN IF hits = {} THEN -1 ELSE CHOOSE i \in hits : \A j \in hits : i <= j

(* lines 109-130: the required fields, then the IBAN format *)
CreateValidation(body, session) ==
    IF ~Truthy(body.amount) \/ ~Truthy(session.username) \/ ~Truthy(body.discordId)
       \/ ~Truthy(body.iban)
    THEN 400
    ELSE IF ~IbanMatches(body.iban) THEN 400
    ELSE 0

(* the handler reaches the required-field check; when it passes,           *)
(* addPayment is called and takes its date (line 919)                      *)
CreateValidate(p) ==
    LET code == CreateValidation(proc[p].body, proc[p].session)
    IN IF code # 0 THEN Finish(p, code, <<>>, hist)
       ELSE Goto(p, [proc[p] EXCEPT !.pc = "append", !.now = clock], hist)

(* lines 69-78: after request.json() *)
CreateBegin(p) ==
    /\ proc[p].pc = "create"
    /\ IF Truthy(proc[p].body.discordId)
       THEN Goto(p, [proc[p] EXCEPT !.pc = "sellerGet"], hist)
       ELSE CreateValidate(p)
    /\ UNCHANGED <<clock, paymentSheet, goldSheet, sellerSheet, paymentsCache,
                   goldPaymentsCache, started>>

(* getSellerInfoByDiscordId answers: GET /api/seller-info returns what it   *)
(* found; POST /api/payments goes on with lines 80-90                      *)
SellerGet(p) ==
    /\ proc[p].pc = "sellerGet"
    /\ LET b == proc[p].body
           row == FindSellerRow(sellerSheet, b.discordId)
           found == row # -1
       IN IF proc[p].kind = "sellerInfo"
          THEN Finish(p, 200, IF found THEN <<sellerSheet[row]>> ELSE <<>>, hist)
          ELSE IF ~found /\ Truthy(b.cardNumber) /\ Truthy(b.iban) /\ Truthy(b.nameOnCard)
          THEN IF ~IbanMatches(b.iban) THEN Finish(p, 400, <<>>, hist)
               ELSE Goto(p, [proc[p] EXCEPT !.pc = "sellerUpsertRead"], hist)
          ELSE CreateValidate(p)
    /\ UNCHANGED <<clock, paymentSheet, goldSheet, sellerSheet, paymentsCache,
                   goldPaymentsCache, started>>

(* getSellerInfoByDiscordId throws: the outer catch *)
SellerGetFails(p) ==
    /\ proc[p].pc = "sellerGet"
    /\ Finish(p, 500, <<>>, hist)
    /\ UNCHANGED <<clock, paymentSheet, goldSheet, sellerSheet, paymentsCache,
                   goldPaymentsCache, started>>

(* addOrUpdateSellerInfo: values.get of column A answers *)
SellerUpsertRead(p) ==
    /\ proc[p].pc = "sellerUpsertRead"
    /\ proc' = [proc EXCEPT ![p].pc = "sellerUpsertWrite",
                            ![p].rowIndex = FindSellerRow(sellerSheet, proc[p].body.discordId)]
    /\ UNCHANGED <<clock, paymentSheet, goldSheet, sellerSheet, paymentsCache,
                   goldPaymentsCache, started, hist>>

(* addOrUpdateSellerInfo: values.append or values.update is applied *)
SellerUpsertWrite(p) ==
    /\ proc[p].pc = "sellerUpsertWrite"
    /\ LET b == proc[p].body
           row == SellerRow(b.discordId, OrElse(b.cardNumber, ""), OrElse(b.iban, ""),
                            OrElse(b.nameOnCard, ""))
       IN sellerSheet' = IF proc[p].rowIndex = -1 THEN Append(sellerSheet, row)
                         ELSE [sellerSheet EXCEPT ![proc[p].rowIndex] = row]
    /\ proc' = [proc EXCEPT ![p].pc = "sellerUpsertDone"]
    /\ UNCHANGED <<clock, paymentSheet, goldSheet, paymentsCache, goldPaymentsCache,
                   started, hist>>

(* addOrUpdateSellerInfo has resolved: POST /api/seller-info answers,      *)
(* POST /api/payments goes on with its validation                          *)
SellerUpsertDone(p) ==
    /\ proc[p].pc = "sellerUpsertDone"
    /\ IF proc[p].kind = "sellerInfoPost" THEN Finish(p, 200, <<>>, hist)
       ELSE CreateValidate(p)
    /\ UNCHANGED <<clock, paymentSheet, goldSheet, sellerSheet, paymentsCache,
                   goldPaymentsCache, started>>

(* addOrUpdateSellerInfo throws: POST /api/payments catches it and the     *)
(* payment goes on; POST /api/seller-info answers 500                      *)
SellerUpsertFails(p) ==
    /\ proc[p].pc \in {"sellerUpsertRead", "sellerUpsertWrite"}
    /\ IF proc[p].kind = "sellerInfoPost" THEN Finish(p, 500, <<>>, hist)
       ELSE CreateValidate(p)
    /\ UNCHANGED <<clock, paymentSheet, goldSheet, sellerSheet, paymentsCache,
                   goldPaymentsCache, started>>

(* addPayment, lines 916-937: the appended row, date being the time of     *)
(* the call; the sheet returns the empty string for the cells left out     *)
NewPaymentRow(body, date) ==
    PaymentRow(OrElse(body.id, ""), body.amount, date, body.discordId, body.iban,
               OrElse(body.note, ""), OrElse(body.status, "Pending"), "")

(* addPayment: values.append is applied *)
AppendPayment(p) ==
    /\ proc[p].pc = "append"
    /\ paymentSheet' = Append(paymentSheet, NewPaymentRow(proc[p].body, ToISOString(proc[p].now)))
    /\ proc' = [proc EXCEPT ![p].pc = "afterAppend"]
    /\ hist' = HistWrite(p, TRUE)
    /\ UNCHANGED <<clock, goldSheet, sellerSheet, paymentsCache, goldPaymentsCache,
                   started>>

(* addPayment throws: the outer catch *)
AppendFails(p) ==
    /\ proc[p].pc = "append"
    /\ Finish(p, 500, <<>>, hist)
    /\ UNCHANGED <<clock, paymentSheet, goldSheet, sellerSheet, paymentsCache,
                   goldPaymentsCache, started>>

(* lines 134-141: invalidatePaymentsCache, then sendToDiscordWebhook *)
AfterAppend(p) ==
    /\ proc[p].pc = "afterAppend"
    /\ paymentsCache' = NoEntry
    /\ IF Notifies(proc[p].kind, proc[p].body)
       THEN Goto(p, [proc[p] EXCEPT !.pc = "notify", !.posts = @ + 1], HistInvalidate(p))
       ELSE Finish(p, SuccessCode(proc[p].kind), <<>>, HistInvalidate(p))
    /\ UNCHANGED <<clock, paymentSheet, goldSheet, sellerSheet, goldPaymentsCache,
                   started>>

----------------------------------------------------------------------------
(* Initial state: the module has just been loaded, both caches are null.   *)

InitialPaymentSheet ==
    <<PaymentHeader,
      PaymentRow("p1", "2", ToISOString(0), "d1", GoodIban, "n0", "Pending", ""),
      PaymentRow("p2", "3", ToISOString(0), "d2", "", "n0", "", "")>>

InitialGoldSheet ==
    <<GoldHeader,
      GoldRow("2025-01-01", "d1", "raid", "", ""),
      GoldRow("2025-01-02", "d2", "raid", "", "yes"),
      GoldRow("2025-01-03", "d1", "boost", "", "")>>

InitialSellerSheet == <<SellerHeader, SellerRow("d1", "6037", GoodIban, "Carol")>>

Init ==
    /\ clock = 0
    /\ paymentSheet = InitialPaymentSheet
    /\ goldSheet = InitialGoldSheet
    /\ sellerSheet = InitialSellerSheet
    /\ paymentsCache = NoEntry
    /\ goldPaymentsCache = NoEntry
    /\ proc = [p \in Procs |-> Idle]
    /\ started = 0
    /\ hist = HistInit

----------------------------------------------------------------------------
(* Requests of the payment handlers under concurrent support staff *)

StatusBody(status) == [NoBody EXCEPT !.status = status]
BatchBody(ids, status, updatedBy) ==
    [NoBody EXCEPT !.paymentIds = ids, !.status = status, !.updatedBy = updatedBy]
CreateBody(id, discordId, iban, status) ==
    [NoBody EXCEPT !.id = id, !.discordId = discordId, !.iban = iban,
                   !.status = status, !.amount = "2", !.cardNumber = "6037",
                   !.nameOnCard = "Name"]

PaymentRequests ==
    {Request("list", Alice, "", NoBody),
     Request("put", Alice, "p1", [NoBody EXCEPT !.status = "Paid", !.note = "n1"]),
     Request("put", Bob, "p1", [NoBody EXCEPT !.note = "n1", !.iban = ShortIban]),
     Request("batch", Alice, "", BatchBody(<<"p2", "p9">>, "Refunded", "zed")),
     Request("delete", Alice, "p2", NoBody)}

CacheSteps(p) ==
    \/ CacheBegin(p)
    \/ AdapterAnswers(p)
    \/ AdapterFails(p)
    \/ CacheFinish(p)

SingleWriteSteps(p) ==
    \/ UpdRead(p)
    \/ StoreCallFails(p)
    \/ DelWrite(p)
    \/ AfterWrite(p)

PaymentSteps(p) ==
    \/ CacheSteps(p)
    \/ ListRespond(p)
    \/ PutAfterRead(p)
    \/ SingleWriteSteps(p)
    \/ UpdWrite(p)
    \/ BatchAfterRead(p)
    \/ \E i \in 1..MaxBatch : BatchItemRead(p, i)
    \/ \E i \in 1..MaxBatch : BatchItemFails(p, i)
    \/ \E i \in 1..MaxBatch : BatchItemWrite(p, i)
    \/ \E i \in 1..MaxBatch : BatchItemAfterWrite(p, i)
    \/ \E i \in 1..MaxBatch, ok \in BOOLEAN : BatchItemNotified(p, i, ok)
    \/ \E ok \in BOOLEAN : WebhookSettles(p, ok)
    \/ BatchJoin(p)

Next ==
    \E p \in Procs :
        \/ \E req \in PaymentRequests : StartRequest(p, req)
        \/ PaymentSteps(p)

Spec == Init /\ [][Next]_vars

----------------------------------------------------------------------------
(* Batches of status updates side by side: every ID of one is in the       *)
(* sheet, one ID of the other is not                                       *)

BatchRequests ==
    {Request("batch", Bob, "", BatchBody(<<"p1", "p2">>, "Cancelled", Undef)),
     Request("batch", Alice, "", BatchBody(<<"p2", "p9">>, "Refunded", "zed"))}

NextBatch ==
    \E p \in Procs :
        \/ \E req \in BatchRequests : StartRequest(p, req)
        \/ CacheSteps(p)
        \/ BatchAfterRead(p)
        \/ \E i \in 1..MaxBatch : BatchItemRead(p, i)
        \/ \E i \in 1..MaxBatch : BatchItemFails(p, i)
        \/ \E i \in 1..MaxBatch : BatchItemWrite(p, i)
        \/ \E i \in 1..MaxBatch : BatchItemAfterWrite(p, i)
        \/ \E i \in 1..MaxBatch, ok \in BOOLEAN : BatchItemNotified(p, i, ok)
        \/ BatchJoin(p)

SpecBatch == Init /\ [][NextBatch]_vars

----------------------------------------------------------------------------
(* The cache under reads, time and an invalidating write *)

CacheRequests ==
    {Request("list", Alice, "", NoBody),
     Request("goldList", Alice, "", NoBody),
     Request("delete", Alice, "p1", NoBody)}

NextCache ==
    \/ Tick
    \/ \E p \in Procs :
        \/ \E req \in CacheRequests : StartRequest(p, req)
        \/ CacheSteps(p)
        \/ ListRespond(p)
        \/ SingleWriteSteps(p)

SpecCache == Init /\ [][NextCache]_vars

----------------------------------------------------------------------------
(* Reads of the payments racing with single-row writes: a read, a write    *)
(* that overtakes it, and the read that follows                            *)

RaceRequests ==
    {Request("list", Alice, "", NoBody),
     Request("put", Alice, "p1", StatusBody("Paid")),
     Request("delete", Alice, "p2", NoBody)}

StartRaceRequest(p, req) == started < MaxRaceRequests /\ Accept(p, req)

NextRace ==
    \E p \in Procs :
        \/ \E req \in RaceRequests : StartRaceRequest(p, req)
        \/ CacheSteps(p)
        \/ ListRespond(p)
        \/ PutAfterRead(p)
        \/ SingleWriteSteps(p)
        \/ UpdWrite(p)
        \/ \E ok \in BOOLEAN : WebhookSettles(p, ok)

SpecRace == Init /\ [][NextRace]_vars

----------------------------------------------------------------------------
(* Every endpoint under callers with and without the SUPPORT role *)

Callers == {NoSession, Carol, Dave, Alice}

GoldPutBody == StatusBody("Paid")

AccessRequests ==
    {Request(k, s, "", NoBody) : k \in {"list", "goldList"}, s \in Callers}
    \cup {Request("put", s, "p1", StatusBody("Paid")) : s \in {NoSession, Carol}}
    \cup {Request("delete", s, "p1", NoBody) : s \in {NoSession, Carol}}
    \cup {Request("batch", s, "", BatchBody(<<"p1">>, "Paid", Undef)) : s \in {NoSession, Carol}}
    \cup {Request("create", s, "", CreateBody("p3", "d2", GoodIban, Undef)) : s \in {NoSession, Carol, Alice}}
    \cup {GoldRequest(s, SyntheticGoldId("d1", 0, 0), GoldPutBody) : s \in {NoSession, Carol, Alice}}
    \cup {Request("get", s, "p2", NoBody) : s \in Callers}
    \cup {Request("get", Carol, id, NoBody) : id \in {"p1", "p9"}}
    \cup {Request("sellerInfo", s, "", [NoBody EXCEPT !.discordId = "d1"]) :
              s \in {NoSession, Dave}}
    \cup {Request("sellerInfoPost", s, "",
                   [NoBody EXCEPT !.discordId = d, !.cardNumber = "6219", !.iban = GoodIban]) :
              s \in {NoSession, Alice}, d \in {"d1", "d3"}}

CreateSteps(p) ==
    \/ CreateBegin(p)
    \/ SellerGet(p)
    \/ SellerGetFails(p)
    \/ SellerUpsertRead(p)
    \/ SellerUpsertWrite(p)
    \/ SellerUpsertDone(p)
    \/ SellerUpsertFails(p)
    \/ AppendPayment(p)
    \/ AppendFails(p)
    \/ AfterAppend(p)

GoldSteps(p) ==
    \/ GoldAfterRead(p)
    \/ GoldRead(p)
    \/ GoldReadFails(p)
    \/ \E r \in 1..MaxRows : GoldRowWrite(p, r)
    \/ \E r \in 1..MaxRows : GoldRowFails(p, r)
    \/ GoldJoin(p)

NextAccess ==
    \E p \in Procs :
        \/ \E req \in AccessRequests : StartRequest(p, req)
        \/ CacheSteps(p)
        \/ ListRespond(p)
        \/ GetRespond(p)
        \/ CreateSteps(p)
        \/ GoldSteps(p)
        \/ \E ok \in BOOLEAN : WebhookSettles(p, ok)

SpecAccess == Init /\ [][NextAccess]_vars

----------------------------------------------------------------------------
(* Every write that notifies, by support staff, with the webhook up or down *)

NotifyRequests ==
    {Request("put", Alice, "p1", StatusBody("Paid")),
     Request("batch", Bob, "", BatchBody(<<"p1", "p9">>, "Cancelled", Undef)),
     Request("create", Alice, "", CreateBody("p3", "d1", GoodIban, Undef)),
     GoldRequest(Bob, SyntheticGoldId("d1", 0, 0), GoldPutBody)}

NextNotify ==
    \E p \in Procs :
        \/ \E req \in NotifyRequests : StartRequest(p, req)
        \/ CacheSteps(p)
        \/ PutAfterRead(p)
        \/ UpdRead(p)
        \/ StoreCallFails(p)
        \/ UpdWrite(p)
        \/ AfterWrite(p)
        \/ BatchAfterRead(p)
        \/ \E i \in 1..MaxBatch : BatchItemRead(p, i)
        \/ \E i \in 1..MaxBatch : BatchItemFails(p, i)
        \/ \E i \in 1..MaxBatch : BatchItemWrite(p, i)
        \/ \E i \in 1..MaxBatch : BatchItemAfterWrite(p, i)
        \/ \E i \in 1..MaxBatch, ok \in BOOLEAN : BatchItemNotified(p, i, ok)
        \/ BatchJoin(p)
        \/ CreateBegin(p)
        \/ SellerGet(p)
        \/ SellerGetFails(p)
        \/ AppendPayment(p)
        \/ AppendFails(p)
        \/ AfterAppend(p)
        \/ GoldSteps(p)
        \/ \E ok \in BOOLEAN : WebhookSettles(p, ok)

SpecNotify == Init /\ [][NextNotify]_vars

----------------------------------------------------------------------------
(* Gold status changes addressed by synthetic and stored ids *)

GoldRequests ==
    {GoldRequest(Alice, SyntheticGoldId("d1", 0, 0), StatusBody("Paid")),
     GoldRequest(Bob, SyntheticGoldId("d1", 2, 7), StatusBody("Cancelled")),
     GoldRequest(Alice, SyntheticGoldId("d2", 1, 0), StatusBody("Pending")),
     GoldRequest(Bob, StoredGoldId("pay-77"), StatusBody("Paid"))}

NextGold ==
    \E p \in Procs :
        \/ \E req \in GoldRequests : StartRequest(p, req)
        \/ CacheSteps(p)
        \/ GoldSteps(p)
        \/ \E ok \in BOOLEAN : WebhookSettles(p, ok)

SpecGold == Init /\ [][NextGold]_vars

----------------------------------------------------------------------------
(* POST /api/payments by support staff with well-formed and malformed      *)
(* bodies, for sellers with and without a Seller Info row                  *)

CreateRequests ==
    {Request("create", Alice, "", CreateBody("p3", "d2", GoodIban, "Paid")),
     Request("create", Bob, "", [CreateBody("p4", "d3", GoodIban, Undef) EXCEPT
                                    !.amount = Undef]),
     Request("create", Alice, "", CreateBody("p5", "d1", ShortIban, Undef)),
     Request("create", Bob, "", [CreateBody("p6", "d1", GoodIban, Undef) EXCEPT
                                    !.date = "2020-01-01T00:00:00.000Z",
                                    !.note = "n6"])}

NextCreate ==
    \E p \in Procs :
        \/ \E req \in CreateRequests : StartRequest(p, req)
        \/ CreateSteps(p)
        \/ \E ok \in BOOLEAN : WebhookSettles(p, ok)

SpecCreate == Init /\ [][NextCreate]_vars

----------------------------------------------------------------------------
(* Status-only updates of one payment to each of the three statuses, and   *)
(* of a payment whose status cell is empty                                 *)

StatusRequests ==
    {Request("put", Alice, "p1", [NoBody EXCEPT !.status = "Pending"]),
     Request("put", Alice, "p1", [NoBody EXCEPT !.status = "Paid"]),
     Request("put", Bob, "p1", [NoBody EXCEPT !.status = "Cancelled"]),
     Request("put", Bob, "p2", [NoBody EXCEPT !.status = "Paid"])}

NextStatus ==
    \E p \in Procs :
        \/ \E req \in StatusRequests : StartRequest(p, req)
        \/ CacheSteps(p)
        \/ PutAfterRead(p)
        \/ UpdRead(p)
        \/ StoreCallFails(p)
        \/ UpdWrite(p)
        \/ AfterWrite(p)
        \/ \E ok \in BOOLEAN : WebhookSettles(p, ok)

SpecStatus == Init /\ [][NextStatus]_vars

----------------------------------------------------------------------------
(* DELETE /api/payments/[id] among listings, creations and updates *)

DeleteRequests ==
    {Request("list", Alice, "", NoBody),
     Request("delete", Alice, "p2", NoBody),
     Request("delete", Bob, "p1", NoBody),
     Request("delete", Bob, "p9", NoBody),
     Request("put", Alice, "p1", [NoBody EXCEPT !.note = "n1"]),
     Request("create", Alice, "", CreateBody("p3", "d1", GoodIban, Undef))}

NextDelete ==
    \E p \in Procs :
        \/ \E req \in DeleteRequests : StartRequest(p, req)
        \/ CacheSteps(p)
        \/ ListRespond(p)
        \/ PutAfterRead(p)
        \/ SingleWriteSteps(p)
        \/ UpdWrite(p)
        \/ CreateBegin(p)
        \/ SellerGet(p)
        \/ SellerGetFails(p)
        \/ AppendPayment(p)
        \/ AppendFails(p)
        \/ AfterAppend(p)
        \/ \E ok \in BOOLEAN : WebhookSettles(p, ok)

SpecDelete == Init /\ [][NextDelete]_vars

----------------------------------------------------------------------------
(* Due dates.  A Date is its UTC calendar day and the time of day, which   *)
(* no setter used here changes; the process runs in UTC, where the local   *)
(* fields that setDate and setMonth work on are the UTC fields that        *)
(* toISOString prints.                                                     *)

(* the Date a setter leaves when it puts month m (beyond 12) or day d      *)
(* (beyond the month's last) into a Date of year y: the excess carries     *)
(* into the next year, resp. the next month                                *)
RECURSIVE MakeDate(_, _, _, _)
MakeDate(y, m, d, time) ==
    LET leap == (y % 4 = 0 /\ y % 100 # 0) \/ y % 400 = 0
        daysInMonth == IF m = 2 THEN (IF leap THEN 29 ELSE 28)
                       ELSE IF m \in {4, 6, 9, 11} THEN 30 ELSE 31
    IN IF m > 12 THEN MakeDate(y + 1, m - 12, d, time)
       ELSE IF d > daysInMonth THEN MakeDate(y, m + 1, d - daysInMonth, time)
       ELSE [year |-> y, month |-> m, day |-> d, time |-> time]

(* new Date(timestamp) of an ISO string YYYY-MM-DDT..., and toISOString *)
ParseISO(timestamp) ==
    [year |-> FirstInteger(SubSeq(timestamp, 1, 4), 0),
     month |-> FirstInteger(SubSeq(timestamp, 6, 7), 0),
     day |-> FirstInteger(SubSeq(timestamp, 9, 10), 0),
     time |-> SubSeq(timestamp, 11, Len(timestamp))]

DateToISOString(date) ==
    ToString(date.year) \o "-" \o TwoDigits(date.month) \o "-" \o TwoDigits(date.day)
        \o date.time

(* calculateDueDate(timestamp, paymentDuration), paymentDuration a string  *)
(* or absent.  The Persian unit words are the second disjunct of each test *)
(* in the code; no string of ASCII characters contains one.                *)
calculateDueDate(timestamp, paymentDuration) ==
    IF ~Truthy(timestamp) THEN ""
    ELSE LET date == ParseISO(timestamp)
             durationLower == ToLowerCase(paymentDuration)
             n(default) == FirstInteger(durationLower, default)
             dueDate ==
                IF ~Truthy(paymentDuration)
                THEN MakeDate(date.year, date.month + 1, date.day, date.time)
                ELSE IF Includes(durationLower, "day")
                THEN MakeDate(date.year, date.month, date.day + n(7), date.time)
                ELSE IF Includes(durationLower, "week")
                THEN MakeDate(date.year, date.month, date.day + n(1) * 7, date.time)
                ELSE IF Includes(durationLower, "month")
                THEN MakeDate(date.year, date.month + n(1), date.day, date.time)
                ELSE IF Includes(durationLower, "year")
                THEN MakeDate(date.year + n(1), date.month, date.day, date.time)
                ELSE MakeDate(date.year, date.month + 1, date.day, date.time)
         IN DateToISOString(dueDate)

(* a call of calculateDueDate returns *)
CallDueDate(p, timestamp, paymentDuration) ==
    /\ started < MaxRequests
    /\ proc[p].pc \in {"idle", "done"}
    /\ started' = started + 1
    /\ proc' = [proc EXCEPT ![p] =
                  [Idle EXCEPT !.pc = "done", !.kind = "dueDate",
                               !.body = [timestamp |-> timestamp,
                                         paymentDuration |-> paymentDuration],
                               !.out = <<calculateDueDate(timestamp, paymentDuration)>>]]
    /\ UNCHANGED <<clock, paymentSheet, goldSheet, sellerSheet, paymentsCache,
                   goldPaymentsCache, hist>>

NextDue ==
    \E p \in Procs :
        \E timestamp \in {"2024-01-30T08:15:00.000Z", "2024-02-28T23:59:59.999Z",
                           "2023-02-27T00:00:00.000Z", "2024-12-31T12:00:00.000Z",
                           "2025-06-15T10:30:00.000Z"},
           paymentDuration \in {"Instant", "1 day", "1-2 days", "2-3 days", "3-5 days",
                                 "5-10 days", "day", "2 Weeks", "3 months", "1 year",
                                 Undef} :
            CallDueDate(p, timestamp, paymentDuration)

SpecDue == Init /\ [][NextDue]_vars

----------------------------------------------------------------------------
(* Sheets as staff may have left them: the handlers start from any of the  *)
(* given contents of the Payment and Gold Payment sheets                   *)

InitSheets(paymentSheets, goldSheets) ==
    /\ clock = 0
    /\ paymentSheet \in paymentSheets
    /\ goldSheet \in goldSheets
    /\ sellerSheet = InitialSellerSheet
    /\ paymentsCache = NoEntry
    /\ goldPaymentsCache = NoEntry
    /\ proc = [p \in Procs |-> Idle]
    /\ started = 0
    /\ hist = HistInit

(* status cells typed by hand *)
StatusCells ==
    {"", "yes", "YES", " Yes ", "true", "Completed", "paid", "cancelled", " Cancel",
     "pending", "Pending", "  ", "no", "Refunded", "done"}

(* the listings, a DELETE by an id typed into the URL, and                 *)
(* PUT /api/gold-payments/[id] with an id a listing has returned           *)
NextSheets ==
    \E p \in Procs :
        \/ StartRequest(p, Request("list", Alice, "", NoBody))
        \/ StartRequest(p, Request("goldList", Alice, "", NoBody))
        \/ StartRequest(p, Request("delete", Bob, "ID", NoBody))
        \/ \E q \in Procs :
              /\ proc[q].kind = "goldList" /\ proc[q].pc = "done"
              /\ \E i \in 1..Len(proc[q].out) :
                    \E body \in {StatusBody("Paid"), StatusBody("Refunded"), NoBody} :
                        StartRequest(p, GoldRequest(Bob, proc[q].out[i].id, body))
        \/ CacheSteps(p)
        \/ ListRespond(p)
        \/ SingleWriteSteps(p)
        \/ GoldSteps(p)
        \/ \E ok \in BOOLEAN : WebhookSettles(p, ok)

SpecSheets ==
    /\ InitSheets({InitialPaymentSheet, <<PaymentHeader>>},
                  {<<GoldHeader>>}
                  \cup {<<GoldHeader, GoldRow("2025-01-01", "d1", "raid", "", cell),
                          GoldRow("2025-01-02", "d2", "raid", "pay-77", "yes")>> :
                             cell \in StatusCells})
    /\ [][NextSheets]_vars

----------------------------------------------------------------------------
(* Steps, as seen from outside the actions *)

CacheNext(c) == IF c = "gold" THEN goldPaymentsCache' ELSE paymentsCache'

(* p runs the synchronous head of getCachedPayments / getCachedGoldPayments *)
BeginsRead(p) == proc[p].pc = "read" /\ proc'[p].pc # "read"

(* p's status-transition write is applied to the sheet: the row it targets *)
PutStatusWritten(p) ==
    /\ proc[p].kind = "put" /\ Truthy(proc[p].body.status)
    /\ proc[p].pc = "updWrite" /\ proc'[p].pc = "afterWrite"

DeleteWritten(p) == proc[p].pc = "delWrite" /\ proc'[p].pc = "afterWrite"

BatchItemWritten(p, i) ==
    /\ proc[p].pc = "batch" /\ proc'[p].pc = "batch"
    /\ i \in 1..Len(proc[p].items)
    /\ proc[p].items[i].state = "write" /\ proc'[p].items[i].state = "written"

----------------------------------------------------------------------------
(* C1: read-after-write consistency of the payments cache - once a write   *)
(* of the Payment sheet has succeeded and its handler has called           *)
(* invalidatePaymentsCache, every getCachedPayments call that starts       *)
(* afterwards returns a listing read from the sheet at or after that       *)
(* write, under every interleaving of requests.                            *)
C1_ReadAfterWrite ==
    \A p \in Procs : hist.gotVer[p] # -1 => hist.gotVer[p] >= hist.minVer[p]

(* C2: cache hit rule, per collection - a read returns the entry's data    *)
(* without calling the adapter, and sets lastAccessed to the read time,    *)
(* exactly when an entry exists, is less than 15 minutes past lastFetched  *)
(* and less than 30 minutes past lastAccessed; in every other case the     *)
(* read calls the adapter.  A hit leaves the entry's data and lastFetched  *)
(* as they were, so two hits on one entry return the same snapshot.        *)
C2_CacheHitRule ==
    [][\A p \in Procs : BeginsRead(p) =>
        LET c == Collection(proc[p].kind)
            e == CacheOf(c)
            hitCase == /\ e # NoEntry
                       /\ clock - e.lastFetched < 15 * 60 * 1000
                       /\ clock - e.lastAccessed < 30 * 60 * 1000
        IN IF hitCase
           THEN /\ proc'[p].pc = "afterRead"
                /\ proc'[p].payments = e.data
                /\ CacheNext(c) = [e EXCEPT !.lastAccessed = clock]
           ELSE proc'[p].pc = "fetch"]_vars

(* C2 witness: a payments read was served from an entry older than itself *)
C2_Witness ==
    \E p \in Procs :
        /\ proc[p].pc = "afterRead" /\ proc[p].kind = "list"
        /\ paymentsCache # NoEntry
        /\ paymentsCache.lastAccessed = proc[p].now
        /\ paymentsCache.lastFetched < proc[p].now
        /\ proc[p].now - paymentsCache.lastFetched < CACHE_REFRESH_INTERVAL
        /\ proc[p].payments = paymentsCache.data

(* C3: after invalidatePaymentsCache the next read of the payments calls   *)
(* the adapter (and so cannot return data fetched before the invalidation) *)
C3_NextReadRefetches ==
    [][\A p \in Procs :
        (BeginsRead(p) /\ Collection(proc[p].kind) = "payments" /\ hist.invalidated)
            => proc'[p].pc = "fetch"]_vars

(* C4: stale-serve fallback - when the refetch of a read fails, the read   *)
(* returns the existing entry's data without an error if an entry exists   *)
(* and raises the error (500) only if none exists; the failed refetch      *)
(* leaves both entries as they were; and a read that finds an entry 15     *)
(* minutes or more past its lastFetched attempts a refetch.                *)
C4_StaleServeFallback ==
    [][\A p \in Procs :
        /\ (proc[p].pc = "fetched" /\ ~proc[p].fetched.ok /\ proc'[p].pc # "fetched") =>
             LET e == CacheOf(Collection(proc[p].kind))
             IN /\ paymentsCache' = paymentsCache
                /\ goldPaymentsCache' = goldPaymentsCache
                /\ IF e # NoEntry
                   THEN proc'[p].pc = "afterRead" /\ proc'[p].payments = e.data
                   ELSE proc'[p].pc = "done" /\ proc'[p].resp = 500
        /\ (BeginsRead(p) /\ CacheOf(Collection(proc[p].kind)) # NoEntry
            /\ clock - CacheOf(Collection(proc[p].kind)).lastFetched >= 15 * 60 * 1000)
             => proc'[p].pc = "fetch"]_vars

(* C4 witness: a read whose refetch failed was served the stale entry *)
C4_Witness ==
    \E p \in Procs :
        /\ proc[p].pc = "afterRead" /\ proc[p].kind = "list"
        /\ ~proc[p].fetched.ok
        /\ paymentsCache # NoEntry
        /\ proc[p].now - paymentsCache.lastFetched >= CACHE_REFRESH_INTERVAL
        /\ proc[p].payments = paymentsCache.data
        /\ Len(proc[p].payments) > 0

(* C5: the step that applies a status transition requested by actor A      *)
(* (single PUT with a status, or one ID of a batch) leaves the target row  *)
(* with the target status and with A as its who-changed label.             *)
C5_TransitionRecordsActor ==
    [][\A p \in Procs :
        /\ PutStatusWritten(p) =>
             /\ paymentSheet'[proc[p].rowIndex].status = proc[p].body.status
             /\ paymentSheet'[proc[p].rowIndex].whoPaidCancelled = proc[p].session.username
        /\ \A i \in 1..MaxBatch : BatchItemWritten(p, i) =>
             /\ paymentSheet'[proc[p].items[i].rowIndex].status = proc[p].body.status
             /\ paymentSheet'[proc[p].items[i].rowIndex].whoPaidCancelled
                    = proc[p].session.username]_vars

(* what a status transition may change: the status and who-changed cells   *)
(* of the row at target, nothing else                                      *)
OnlyStatusCellsChange(target) ==
    /\ Len(paymentSheet') = Len(paymentSheet)
    /\ \A r \in 1..Len(paymentSheet) :
        IF r = target
        THEN paymentSheet'[r] = [paymentSheet[r] EXCEPT
                !.status = paymentSheet'[r].status,
                !.whoPaidCancelled = paymentSheet'[r].whoPaidCancelled]
        ELSE paymentSheet'[r] = paymentSheet[r]

(* C6: a status transition (single PUT carrying a status, one ID of a      *)
(* batch, DELETE-as-cancel) changes only the status and who-changed cells  *)
(* of its target row and no other row, whatever else the body carries and  *)
(* however old the listing or row the handler read before.                 *)
C6_TransitionTouchesOnlyStatus ==
    [][\A p \in Procs :
        /\ PutStatusWritten(p) => OnlyStatusCellsChange(proc[p].rowIndex)
        /\ DeleteWritten(p) => OnlyStatusCellsChange(proc[p].rowIndex)
        /\ \A i \in 1..MaxBatch : BatchItemWritten(p, i) =>
             OnlyStatusCellsChange(proc[p].items[i].rowIndex)]_vars

(* C6 witness: a PUT whose body carries a status and a note has written,   *)
(* the note of its target row having changed after the handler read it     *)
C6_Witness ==
    \E p \in Procs :
        /\ proc[p].pc = "afterWrite" /\ proc[p].kind = "put"
        /\ Truthy(proc[p].body.status) /\ Truthy(proc[p].body.note)
        /\ paymentSheet[proc[p].rowIndex].status = proc[p].body.status
        /\ proc[p].current.note # paymentSheet[proc[p].rowIndex].note
        /\ \E i \in 1..Len(proc[p].payments) :
             /\ proc[p].payments[i].id = proc[p].id
             /\ proc[p].payments[i].note # paymentSheet[proc[p].rowIndex].note

(* C7: every payment record that listPayments reads from the stored rows   *)
(* has a status among Pending, Paid, Cancelled.                            *)
C7_StatusInvariant ==
    LET listed == getPayments(paymentSheet)
    IN \A i \in 1..Len(listed) : listed[i].status \in CanonicalStatuses

(* C8: authorization fails fast - every step of a write request (create,   *)
(* update, status change, batch, delete, gold status change) whose caller  *)
(* has no session or a role other than SUPPORT is the rejection: 401       *)
(* without a session, 403 otherwise, with the sheets and both cache        *)
(* entries left as they were.                                              *)
C8_AuthorizationFailsFast ==
    [][\A p \in Procs :
        (/\ proc'[p] # proc[p]
         /\ proc'[p].kind \in {"create", "put", "batch", "delete", "goldPut"}
         /\ proc'[p].session.role # "SUPPORT")
        => /\ proc'[p].pc = "done"
           /\ proc'[p].resp = IF proc'[p].session = NoSession THEN 401 ELSE 403
           /\ UNCHANGED <<paymentSheet, goldSheet, sellerSheet,
                          paymentsCache, goldPaymentsCache>>]_vars

(* C8 witness: one write request was refused with 401 and one with 403 *)
C8_Witness ==
    \E p, q \in Procs :
        /\ proc[p].pc = "done" /\ proc[p].kind \in WriteKinds
        /\ proc[p].session = NoSession /\ proc[p].resp = 401
        /\ proc[q].pc = "done" /\ proc[q].kind \in WriteKinds
        /\ proc[q].session.role = "MEMBER" /\ proc[q].resp = 403

(* C9: access filter on lists - the list returned to a viewer whose role   *)
(* is not SUPPORT holds only records of the viewer's own discordId; a      *)
(* SUPPORT viewer gets the result of the cache read unchanged.             *)
C9_AccessFilter ==
    [][\A p \in Procs :
        (/\ proc[p].pc = "afterRead" /\ proc[p].kind \in {"list", "goldList"}
         /\ proc'[p].pc = "done")
        => /\ proc'[p].resp = 200
           /\ IF proc[p].session.role = "SUPPORT"
              THEN proc'[p].out = proc[p].payments
              ELSE \A i \in 1..Len(proc'[p].out) :
                      proc'[p].out[i].discordId = proc[p].session.discordId]_vars

(* C9 witness: a MEMBER was given a list shorter than the stored listing *)
C9_Witness ==
    \E p \in Procs :
        /\ proc[p].pc = "done" /\ proc[p].kind = "list" /\ proc[p].resp = 200
        /\ proc[p].session.role = "MEMBER"
        /\ Len(proc[p].out) = 1
        /\ proc[p].out[1].discordId = proc[p].session.discordId
        /\ Len(getPayments(paymentSheet)) > 1

(* C10: batch status update, per ID - the write of one ID lands whatever   *)
(* became of the other IDs; the failure of one ID changes no row and no    *)
(* other ID's progress; the response carries one result per requested ID,  *)
(* in order, successful exactly for the IDs written; the code is 207 when  *)
(* at least one ID failed and 200 when none did; and the payments cache is *)
(* invalidated when at least one ID was written.                           *)
C10_BatchPerIdIndependence ==
    [][\A p \in Procs :
        /\ \A i \in 1..MaxBatch : BatchItemWritten(p, i) =>
             /\ paymentSheet'[proc[p].items[i].rowIndex].status = proc[p].body.status
             /\ \A j \in 1..Len(proc[p].items) :
                  j # i => proc'[p].items[j] = proc[p].items[j]
        /\ \A i \in 1..MaxBatch :
             (/\ proc[p].pc = "batch" /\ proc'[p].pc = "batch"
              /\ i \in 1..Len(proc[p].items)
              /\ proc[p].items[i].state # "fail" /\ proc'[p].items[i].state = "fail")
             => /\ paymentSheet' = paymentSheet
                /\ \A j \in 1..Len(proc[p].items) :
                     j # i => proc'[p].items[j] = proc[p].items[j]
        /\ (proc[p].pc = "batch" /\ proc'[p].pc = "done") =>
             LET ids == proc[p].body.paymentIds
                 out == proc'[p].out
                 written == {i \in 1..Len(ids) : proc[p].items[i].state = "ok"}
             IN /\ Len(out) = Len(ids)
                /\ \A i \in 1..Len(ids) :
                     /\ out[i].paymentId = ids[i]
                     /\ out[i].success = (i \in written)
                /\ (proc'[p].resp = 207) = (\E i \in 1..Len(ids) : i \notin written)
                /\ (proc'[p].resp = 200) = (\A i \in 1..Len(ids) : i \in written)
                /\ written # {} => paymentsCache' = NoEntry]_vars

(* C10 witness: a batch of two IDs answered 207, one ID written and the    *)
(* other failed, and the written row carries the requested status          *)
C10_Witness ==
    \E p \in Procs :
        /\ proc[p].pc = "done" /\ proc[p].kind = "batch" /\ proc[p].resp = 207
        /\ Len(proc[p].out) = 2
        /\ \E i, j \in 1..2 :
             /\ proc[p].out[i].success /\ ~proc[p].out[j].success
             /\ \E r \in 1..Len(paymentSheet) :
                  /\ paymentSheet[r].id = proc[p].out[i].paymentId
                  /\ paymentSheet[r].status = proc[p].body.status
        /\ paymentsCache = NoEntry

(* C11: notification isolation - the step on which a webhook POST settles  *)
(* leaves the sheets and both cache entries as they were and gives the     *)
(* response of the successful write (201 for create, 200 for a status      *)
(* change or gold status change; a successful result for the ID of a       *)
(* batch) whether the POST succeeded or failed; a request posts only on a  *)
(* step that follows a write of its own that was applied, one POST at a    *)
(* time, at most one per request (per written ID for a batch), and a       *)
(* request that answers with an error has posted nothing.                  *)
C11_NotificationIsolation ==
    [][\A p \in Procs :
        /\ (proc[p].pc = "notify" /\ proc'[p].pc = "done") =>
             /\ proc'[p].resp = IF proc[p].kind = "create" THEN 201 ELSE 200
             /\ proc'[p].posts = 1
             /\ UNCHANGED <<paymentSheet, goldSheet, sellerSheet,
                            paymentsCache, goldPaymentsCache>>
        /\ \A i \in 1..MaxBatch :
             (/\ proc[p].pc = "batch" /\ i \in 1..Len(proc[p].items)
              /\ proc[p].items[i].state = "notify"
              /\ proc'[p].pc = "batch" /\ proc'[p].items[i] # proc[p].items[i])
             => /\ proc'[p].items[i].state = "ok"
                /\ UNCHANGED <<paymentSheet, goldSheet, sellerSheet,
                               paymentsCache, goldPaymentsCache>>
        /\ (proc[p].pc \notin {"idle", "done"} /\ proc'[p].posts # proc[p].posts) =>
             /\ proc'[p].posts = proc[p].posts + 1
             /\ IF proc[p].kind = "batch"
                THEN proc'[p].posts
                       = Cardinality({i \in 1..Len(proc'[p].items) :
                                        proc'[p].items[i].state \in {"notify", "ok"}})
                ELSE /\ proc[p].posts = 0
                     /\ proc[p].pc \in {"afterWrite", "afterAppend", "goldWrite"}
        /\ (proc[p].pc \notin {"idle", "done"} /\ proc'[p].pc = "done") =>
             IF proc[p].kind = "batch" /\ proc'[p].resp \in {200, 207}
             THEN proc'[p].posts
                    = Cardinality({i \in 1..Len(proc'[p].out) : proc'[p].out[i].success})
             ELSE IF proc'[p].resp \in {200, 201}
             THEN proc'[p].posts = 1
             ELSE proc'[p].posts = 0]_vars

(* C11 witness: a create answered 201 and a batch wrote an ID, the webhook *)
(* POST of each having failed                                              *)
C11_Witness ==
    \E p, q \in Procs :
        /\ proc[p].pc = "done" /\ proc[p].kind = "create"
        /\ proc[p].notified = "failed" /\ proc[p].posts = 1 /\ proc[p].resp = 201
        /\ \E r \in 1..Len(paymentSheet) : paymentSheet[r].id = proc[p].body.id
        /\ proc[q].pc = "done" /\ proc[q].kind = "batch"
        /\ proc[q].notified = "failed" /\ proc[q].resp = 207
        /\ proc[q].out[1].success

(* the data rows of the Gold Payment sheet whose Discord ID cell is d *)
GoldRowsOf(d) == {r \in 2..Len(goldSheet) : goldSheet[r].discordId = d}

(* C12: gold bulk transition - updateGoldPaymentStatus called with the     *)
(* synthetic id gold-{d}-{index}-{millis} sets out to write every data row *)
(* whose Discord ID is d, whatever index and millis are; each of its       *)
(* writes puts the cell value of the target status into one such row and   *)
(* changes nothing else; it returns successfully only when each of those   *)
(* rows has been written, and with an error as soon as one write fails,    *)
(* the writes still in flight landing afterwards; and no step of it        *)
(* changes a row of another Discord ID.                                    *)
C12_GoldBulkTransition ==
    [][\A p \in Procs :
        (proc[p].kind = "goldPut" /\ proc[p].goldId.synthetic /\ proc'[p] # proc[p]
         /\ (proc[p].pc \in {"goldRead", "goldWrite"} \/ proc[p].todo # {}))
        => LET d == proc[p].goldId.discordId
               value == CASE proc[p].body.status = "Paid" -> "yes"
                          [] proc[p].body.status = "Cancelled" -> "cancelled"
                          [] OTHER -> "pending"
           IN /\ (proc[p].pc = "goldRead" /\ proc'[p].pc = "goldWrite")
                    => proc'[p].todo = GoldRowsOf(d)
              /\ (proc[p].pc = "goldRead" /\ proc'[p].pc = "done")
                    => goldSheet' = goldSheet /\ proc'[p].resp = 500
              /\ (proc[p].pc = "goldWrite" /\ proc'[p].pc = "goldWrite")
                    => \E r \in proc[p].todo :
                         /\ proc'[p].todo = proc[p].todo \ {r}
                         /\ goldSheet[r].discordId = d
                         /\ goldSheet' = [goldSheet EXCEPT ![r].category = value]
              /\ (proc[p].pc = "goldWrite" /\ proc'[p].pc \in {"notify", "done"})
                    => /\ goldSheet' = goldSheet
                       /\ IF proc'[p].pc = "notify" \/ proc'[p].resp = 200
                          THEN proc[p].todo = {}
                          ELSE /\ proc'[p].resp = 500
                               /\ \E r \in proc[p].todo :
                                    proc'[p].todo = proc[p].todo \ {r}
              /\ proc[p].pc = "done"
                    => \E r \in proc[p].todo :
                         /\ proc'[p].todo = proc[p].todo \ {r}
                         /\ goldSheet[r].discordId = d
                         /\ \/ goldSheet' = [goldSheet EXCEPT ![r].category = value]
                            \/ goldSheet' = goldSheet
              /\ \A r \in 1..Len(goldSheet) :
                    goldSheet[r].discordId # d => goldSheet'[r] = goldSheet[r]]_vars

(* C12 witness: the request keyed by gold-d1-2-7 has succeeded; both rows  *)
(* of d1 carry the cell value of Cancelled and the row of d2 is untouched  *)
C12_Witness ==
    \E p \in Procs :
        /\ proc[p].pc = "done" /\ proc[p].kind = "goldPut" /\ proc[p].resp = 200
        /\ proc[p].goldId = SyntheticGoldId("d1", 2, 7)
        /\ Cardinality(GoldRowsOf("d1")) = 2
        /\ \A r \in GoldRowsOf("d1") : goldSheet[r].category = "cancelled"
        /\ \A r \in GoldRowsOf("d2") : goldSheet[r] = InitialGoldSheet[r]

(* the cells of a Payment row that updatePayment merges *)
MergedFields == {"amount", "discordId", "iban", "note", "status", "whoPaidCancelled"}

(* the row at rowIndex after the step is the stored row with every field   *)
(* that the partial carries replaced, and the timestamp cell kept          *)
WrittenAsMerged(rowIndex, partial) ==
    /\ \A f \in MergedFields :
         paymentSheet'[rowIndex][f] =
            IF partial[f] # Undef THEN partial[f] ELSE paymentSheet[rowIndex][f]
    /\ paymentSheet'[rowIndex].timestamp = paymentSheet[rowIndex].timestamp

(* C13: updatePayment merge rule - in the row that updatePayment writes,   *)
(* every field the partial carries with a non-undefined value has the      *)
(* partial's value (also when the partial carries a status) and every      *)
(* other field keeps the stored cell value; the creation timestamp cell    *)
(* keeps its stored value.                                                 *)
C13_MergeRule ==
    [][\A p \in Procs :
        /\ (proc[p].kind = "put" /\ proc[p].pc = "updWrite" /\ proc'[p].pc = "afterWrite")
             => WrittenAsMerged(proc[p].rowIndex, proc[p].partial)
        /\ \A i \in 1..MaxBatch : BatchItemWritten(p, i)
             => WrittenAsMerged(proc[p].items[i].rowIndex, proc[p].partial)]_vars

(* C16: IBAN invariant - every IBAN cell of the data rows of the Payment   *)
(* sheet and of the Seller Info sheet is empty or matches IR followed by    *)
(* 24 digits.                                                              *)
C16_IbanInvariant ==
    /\ \A r \in 2..Len(paymentSheet) :
          paymentSheet[r].iban = "" \/ IbanMatches(paymentSheet[r].iban)
    /\ \A r \in 2..Len(sellerSheet) :
          sellerSheet[r].iban = "" \/ IbanMatches(sellerSheet[r].iban)

(* addPayment's values.append of p's request is applied on this step *)
PaymentAppended(p) == proc[p].pc = "append" /\ proc'[p].pc = "afterAppend"

(* C14: creation forces the initial state - the row a successful           *)
(* POST /api/payments appends has status Pending whatever the body          *)
(* carries, and the record listed for it has status Pending and            *)
(* paid = false.                                                           *)
C14_CreationForcesPending ==
    [][\A p \in Procs : PaymentAppended(p) =>
        LET row == paymentSheet'[Len(paymentSheet')]
            listed == getPayments(paymentSheet')
            record == listed[Len(listed)]
        IN /\ row.id = proc[p].body.id /\ row.status = "Pending"
           /\ record.id = proc[p].body.id /\ record.status = "Pending"
           /\ ~record.paid]_vars

(* what POST /api/payments requires of a body *)
CreateBodyValid(body) ==
    /\ Truthy(body.amount) /\ Truthy(body.discordId) /\ Truthy(body.iban)
    /\ IbanMatches(body.iban)

(* C15: validation fails fast on create - every step of a                  *)
(* POST /api/payments whose body has a malformed IBAN or lacks a required   *)
(* field is the 400 rejection, taken before any store call: the handler is *)
(* never waiting for a store read or write, and the sheets and the cache   *)
(* entries are as they were.                                               *)
C15_CreateValidationFailsFast ==
    [][\A p \in Procs :
        (/\ proc'[p] # proc[p]
         /\ proc'[p].kind = "create" /\ proc'[p].session.role = "SUPPORT"
         /\ ~CreateBodyValid(proc'[p].body)
         /\ proc'[p].pc # "create")
        => /\ proc'[p].pc = "done" /\ proc'[p].resp = 400 /\ proc'[p].posts = 0
           /\ proc[p].pc = "create"
           /\ UNCHANGED <<paymentSheet, goldSheet, sellerSheet,
                          paymentsCache, goldPaymentsCache>>]_vars

(* C17: SellerInfo uniqueness - the Seller Info sheet has at most one row  *)
(* per Discord ID.                                                         *)
C17_SellerUniqueness ==
    \A i, j \in 2..Len(sellerSheet) :
        sellerSheet[i].discordId = sellerSheet[j].discordId => i = j

(* C18: round-trip - once addPayment's append is applied, getPayments      *)
(* lists a record whose fields equal the input's (id, amount, Discord ID,  *)
(* IBAN, note, creation date), with status Pending and paid = false when   *)
(* the input had no status.                                                *)
C18_RoundTrip ==
    [][\A p \in Procs : PaymentAppended(p) =>
        LET b == proc[p].body
            listed == getPayments(paymentSheet')
        IN \E k \in 1..Len(listed) :
             /\ listed[k].id = b.id
             /\ listed[k].amount = b.amount
             /\ listed[k].discordId = b.discordId
             /\ listed[k].iban = b.iban
             /\ b.note # Undef => listed[k].note = b.note
             /\ b.date # Undef => /\ listed[k].submitDate = b.date
                                  /\ listed[k].timestamp = b.date
             /\ b.status = Undef => listed[k].status = "Pending" /\ ~listed[k].paid]_vars

(* C19: no terminal state and idempotence - a status-only update to any of *)
(* Pending, Paid, Cancelled is applied whatever the row's status is: the   *)
(* stored status becomes the target, every other cell and row is as it     *)
(* was, the row count is unchanged, applying it to a row already at the    *)
(* target leaves the sheet as it is, and the request answers 200.          *)
C19_NoTerminalState ==
    [][\A p \in Procs :
        /\ PutStatusWritten(p) =>
             LET r == proc[p].rowIndex
                 target == proc[p].body.status
             IN /\ paymentSheet'[r].status = target
                /\ paymentSheet' = [paymentSheet EXCEPT ![r].status = target]
                /\ Len(paymentSheet') = Len(paymentSheet)
                /\ paymentSheet[r].status = target => paymentSheet' = paymentSheet
        /\ (proc[p].kind = "put" /\ proc[p].pc = "notify" /\ proc'[p].pc = "done")
             => proc'[p].resp = 200]_vars

(* a row read as Paid has been set back to Pending by a status-only update *)
C19_Witness ==
    \E p \in Procs :
        /\ proc[p].kind = "put" /\ proc[p].pc = "afterWrite"
        /\ proc[p].body.status = "Pending" /\ proc[p].current.status = "Paid"
        /\ paymentSheet[proc[p].rowIndex].status = "Pending"

(* C20: payments are never hard-deleted - no step removes a row of the     *)
(* Payment sheet or moves one (the row count never decreases and every row *)
(* keeps its id); the write of DELETE /api/payments/[id] sets the status   *)
(* cell of the row carrying that id to Cancelled and leaves every other    *)
(* cell and row as it was; and the handler then drops the payments cache   *)
(* entry and answers 200.                                                  *)
C20_NeverHardDeleted ==
    [][/\ Len(paymentSheet') >= Len(paymentSheet)
       /\ \A r \in 1..Len(paymentSheet) : paymentSheet'[r].id = paymentSheet[r].id
       /\ \A p \in Procs :
            /\ DeleteWritten(p) =>
                 /\ paymentSheet[proc[p].rowIndex].id = proc[p].id
                 /\ paymentSheet' =
                      [paymentSheet EXCEPT ![proc[p].rowIndex].status = "Cancelled"]
            /\ (proc[p].kind = "delete" /\ proc[p].pc = "afterWrite"
                    /\ proc'[p] # proc[p])
                 => /\ paymentsCache' = NoEntry
                    /\ proc'[p].pc = "done" /\ proc'[p].resp = 200]_vars

(* a DELETE of p2 has answered 200 after a payment was created: the sheet  *)
(* has grown by a row, p2 is in its place with status Cancelled and its    *)
(* other cells as before, and the cache entry is gone                      *)
C20_Witness ==
    \E p \in Procs :
        /\ proc[p].kind = "delete" /\ proc[p].id = "p2"
        /\ proc[p].pc = "done" /\ proc[p].resp = 200
        /\ Len(paymentSheet) = Len(InitialPaymentSheet) + 1
        /\ paymentSheet[3] = [InitialPaymentSheet[3] EXCEPT !.status = "Cancelled"]
        /\ paymentsCache = NoEntry

(* C21: due-date derivation for enumerated durations - for every creation  *)
(* timestamp t, calculateDueDate(t, duration) is t plus 0, 1, 2, 3, 5 and  *)
(* 10 days for Instant, 1 day, 1-2 days, 2-3 days, 3-5 days and 5-10 days, *)
(* and t plus the default of 1 day for a duration that names the unit day  *)
(* with no number.                                                         *)
C21_DueDateDerivation ==
    \A p \in Procs :
        (proc[p].pc = "done" /\ proc[p].kind = "dueDate") =>
            LET duration == proc[p].body.paymentDuration
                t == ParseISO(proc[p].body.timestamp)
                plus(days) == DateToISOString(MakeDate(t.year, t.month, t.day + days, t.time))
                due == proc[p].out[1]
            IN /\ duration = "Instant" => due = plus(0)
               /\ duration = "1 day" => due = plus(1)
               /\ duration = "1-2 days" => due = plus(2)
               /\ duration = "2-3 days" => due = plus(3)
               /\ duration = "3-5 days" => due = plus(5)
               /\ duration = "5-10 days" => due = plus(10)
               /\ duration = "day" => due = plus(1)

(* C22: status normalization on read - every record that                   *)
(* GET /api/gold-payments returns from getGoldPayments has a status in     *)
(* {Pending, Paid, Cancelled}, whatever the status cell of its row holds.  *)
C22_GoldStatusNormalized ==
    \A p \in Procs :
        (proc[p].kind = "goldList" /\ proc[p].pc = "done" /\ proc[p].resp = 200) =>
            \A i \in 1..Len(proc[p].out) : proc[p].out[i].status \in CanonicalStatuses

(* C23: NotFound is a distinct outcome - when updatePayment or             *)
(* deletePayment has read the sheet and no row carries the payment ID, the *)
(* request ends with 404, not with the 500 of a store failure, and every   *)
(* row of the sheet is as it was.                                          *)
C23_NotFoundIsDistinct ==
    [][\A p \in Procs :
        (UpdRead(p) /\ FindRowIndex(paymentSheet, proc[p].id) = -1)
        => /\ proc'[p].pc = "done" /\ proc'[p].resp = 404
           /\ paymentSheet' = paymentSheet]_vars

(* C24: writes never silently no-op - a store write that fails inside a    *)
(* write operation gives the caller an error outcome: when the Seller Info *)
(* upsert of a payment creation fails the request ends with an error, and  *)
(* a creation that answers 201 for a seller sent with card number, IBAN    *)
(* and name on card leaves a Seller Info row of that seller.               *)
C24_WritesNeverSilentlyNoOp ==
    [][\A p \in Procs :
        /\ SellerUpsertFails(p) => proc'[p].pc = "done" /\ proc'[p].resp = 500
        /\ (/\ proc[p].kind = "create" /\ proc[p].pc # "done"
            /\ proc'[p].pc = "done" /\ proc'[p].resp = 201
            /\ Truthy(proc[p].body.cardNumber) /\ Truthy(proc[p].body.iban)
            /\ Truthy(proc[p].body.nameOnCard))
           => FindSellerRow(sellerSheet', proc[p].body.discordId) # -1]_vars

(* C25: header and padding handling - the listings return exactly one      *)
(* record per data row, so a row 1 whose first cell is the header label    *)
(* (ID, resp. Date) is never returned as a record, also when the sheet     *)
(* holds the header and no data row; and deletePayment never selects that  *)
(* row as its target.                                                      *)
C25_HeaderNeverARecord ==
    [][\A p \in Procs :
        /\ (ListRespond(p) /\ proc'[p].resp = 200) =>
             LET rows == IF proc[p].kind = "list"
                         THEN [i \in 1..Len(paymentSheet) |-> paymentSheet[i].id]
                         ELSE [i \in 1..Len(goldSheet) |-> goldSheet[i].date]
                 label == IF proc[p].kind = "list" THEN "ID" ELSE "Date"
                 dataRows == IF Len(rows) > 0 /\ rows[1] = label
                             THEN Len(rows) - 1 ELSE Len(rows)
             IN Len(proc'[p].out) = dataRows
        /\ DeleteWritten(p) =>
             ~(proc[p].rowIndex = 1 /\ paymentSheet[1].id = "ID")]_vars

(* C26: gold transition is visible on read - when                          *)
(* updateGoldPaymentStatus(id, {status: S}) has succeeded for S in         *)
(* {Pending, Paid, Cancelled}, with no other gold update running beside    *)
(* it, getGoldPayments on the sheet it leaves returns status S for every   *)
(* row of the Discord ID of id.                                            *)
C26_GoldTransitionVisible ==
    [][\A p \in Procs :
        (/\ proc[p].kind = "goldPut" /\ proc[p].pc = "goldWrite"
         /\ proc'[p].pc = "notify" \/ (proc'[p].pc = "done" /\ proc'[p].resp = 200)
         /\ proc[p].body.status \in CanonicalStatuses
         /\ \A q \in Procs \ {p} : proc[q].kind # "goldPut")
        => LET listed == getGoldPayments(goldSheet', clock')
           IN \A i \in 1..Len(listed) :
                listed[i].discordId = proc[p].goldId.discordId
                    => listed[i].status = proc[p].body.status]_vars

(* C27: every gold-payment ID handed out is usable - when                  *)
(* PUT /api/gold-payments/[id] is called with an id that a listing has     *)
(* returned, updateGoldPaymentStatus accepts the id and goes on to read    *)
(* the sheet, and the Discord ID it takes from the id is that of the       *)
(* record the id was returned for.                                         *)
C27_GoldIdUsable ==
    [][\A p \in Procs :
        GoldAfterRead(p) =>
            /\ proc'[p].pc = "goldRead"
            /\ \A q \in Procs :
                 (proc[q].kind = "goldList" /\ proc[q].pc = "done") =>
                    \A i \in 1..Len(proc[q].out) :
                        proc[q].out[i].id = proc[p].goldId
                            => ParseGoldId(proc[p].goldId) = proc[q].out[i].discordId]_vars

(* C30: a gold status request without a valid target is a no-op on the     *)
(* store - no step of a PUT /api/gold-payments/[id] whose body has no      *)
(* status, or a status outside {Pending, Paid, Cancelled}, changes a cell  *)
(* of the Gold Payment sheet, and the request is not answered with         *)
(* success.                                                                *)
C30_GoldInvalidStatusNoOp ==
    [][\A p \in Procs :
        (/\ proc[p].kind = "goldPut" /\ proc[p].pc \notin {"idle", "done"}
         /\ proc[p].body.status \notin CanonicalStatuses
         /\ proc'[p] # proc[p])
        => /\ goldSheet' = goldSheet
           /\ proc'[p].pc = "done" => proc'[p].resp >= 400]_vars

(* C28: single-record reads respect ownership - every 200 answer of         *)
(* GET /api/payments/[id], GET /api/payments or GET /api/gold-payments to   *)
(* a caller whose role is not SUPPORT holds only records whose discordId    *)
(* is the caller's own.                                                     *)
C28_SingleReadRespectsOwnership ==
    \A p \in Procs :
        (/\ proc[p].pc = "done" /\ proc[p].resp = 200
         /\ proc[p].kind \in {"get", "list", "goldList"}
         /\ proc[p].session.role # "SUPPORT")
        => \A i \in 1..Len(proc[p].out) :
               proc[p].out[i].discordId = proc[p].session.discordId

(* C29: only privileged actors touch Seller Info - every step that changes  *)
(* the Seller Info sheet is a step of a request whose caller has the role   *)
(* SUPPORT, and no request without a session is answered with a seller's    *)
(* bank details.                                                            *)
C29_SellerInfoPrivileged ==
    [][/\ sellerSheet' # sellerSheet
          => \E p \in Procs : proc'[p] # proc[p] /\ proc[p].session.role = "SUPPORT"
       /\ \A p \in Procs :
            (/\ proc'[p].pc = "done" /\ proc'[p].kind = "sellerInfo"
             /\ proc'[p].session = NoSession)
            => proc'[p].out = <<>>]_vars

====
